---- MODULE Spec2Model ----
(***************************************************************************)
(* A model of the cytra-gb emulation engine (src/wasm/gb/src): the         *)
(* register file, the memory-management unit, the timer, the pixel         *)
(* pipeline and the execution core with its run_frame loop.                *)
(*                                                                         *)
(* Representation.  Byte arrays that the code fills with zero (vram, eram, *)
(* wram, oam, hram, rom padding, the banked copies) are kept sparse: a     *)
(* function whose domain is the set of offsets holding a non-zero byte.    *)
(* Get/Put keep that form canonical, so two equal memories are equal       *)
(* values.  The framebuffer is kept per row as a run-length list of RGBA   *)
(* pixels.  Integers keep the width of the Rust type (u8, u16, u32) by     *)
(* explicit reduction; "+=" on a u32 is modelled as the wrapping add of a  *)
(* release build.                                                          *)
(***************************************************************************)
EXTENDS Integers, Sequences, FiniteSets, TLC

---------------------------------------------------------------------------
(* Fixed-width arithmetic and bit operations.                              *)

U8(x)  == x % 256
U16(x) == x % 65536

\* A u32 is the pair <<high 16 bits, low 16 bits>> (the checker's integers
\* are narrower than 32 bits).
Limb == 65536
Zero32 == <<0, 0>>
\* x.wrapping_add(n), n an integer below 2^31 - 2^16
Add32(x, n) ==
    LET lo == x[2] + n
    IN  <<(x[1] + lo \div Limb) % Limb, lo % Limb>>
\* a.wrapping_sub(b)
Sub32(a, b) ==
    LET lo == a[2] - b[2] + Limb
        hi == a[1] - b[1] - (IF lo < Limb THEN 1 ELSE 0) + Limb
    IN  <<hi % Limb, lo % Limb>>
\* The integer a u32 below 2^31 stands for.
Int32(x) == x[1] * Limb + x[2]

Bit(x, i) == (x \div (2 ^ i)) % 2

BitAnd(x, y) ==
    LET b(i) == Bit(x, i) * Bit(y, i)
    IN  b(0) + 2 * b(1) + 4 * b(2) + 8 * b(3) + 16 * b(4) + 32 * b(5)
        + 64 * b(6) + 128 * b(7)

BitOr(x, y) ==
    LET b(i) == IF Bit(x, i) + Bit(y, i) > 0 THEN 1 ELSE 0
    IN  b(0) + 2 * b(1) + 4 * b(2) + 8 * b(3) + 16 * b(4) + 32 * b(5)
        + 64 * b(6) + 128 * b(7)

BitXor(x, y) ==
    LET b(i) == (Bit(x, i) + Bit(y, i)) % 2
    IN  b(0) + 2 * b(1) + 4 * b(2) + 8 * b(3) + 16 * b(4) + 32 * b(5)
        + 64 * b(6) + 128 * b(7)

\* !x on a u8
BitNot(x) == 255 - x

\* x | (1 << i) and x & !(1 << i) on a u8
SetBit(x, i) == IF Bit(x, i) = 1 THEN x ELSE x + 2 ^ i
ClearBit(x, i) == IF Bit(x, i) = 1 THEN x - 2 ^ i ELSE x

\* (b as i8) as i16 as u16 : sign extension of a byte to 16 bits
SignExt(b) == IF b >= 128 THEN b + 65280 ELSE b

Byte == 0..255

---------------------------------------------------------------------------
(* Sparse zero-filled memories.                                            *)

Empty == [o \in {} |-> 0]

Get(mem, off) == IF off \in DOMAIN mem THEN mem[off] ELSE 0

Put(mem, off, val) ==
    IF val = 0
    THEN [o \in (DOMAIN mem) \ {off} |-> mem[o]]
    ELSE [o \in (DOMAIN mem) \cup {off} |-> IF o = off THEN val ELSE mem[o]]

---------------------------------------------------------------------------
(* registers.rs                                                            *)

RegistersNew ==
    [a |-> \h01, b |-> \h00, c |-> \h13, d |-> \h00, e |-> \hD8,
     h |-> \h01, l |-> \h4D, f |-> \hB0, sp |-> \hFFFE, pc |-> \h0100]

flag_z(r) == BitAnd(r.f, \h80) # 0
flag_n(r) == BitAnd(r.f, \h40) # 0
flag_h(r) == BitAnd(r.f, \h20) # 0
flag_c(r) == BitAnd(r.f, \h10) # 0

set_flag_z(r, v) ==
    [r EXCEPT !.f = IF v THEN BitOr(r.f, \h80) ELSE BitAnd(r.f, \h7F)]
set_flag_n(r, v) ==
    [r EXCEPT !.f = IF v THEN BitOr(r.f, \h40) ELSE BitAnd(r.f, \hBF)]
set_flag_h(r, v) ==
    [r EXCEPT !.f = IF v THEN BitOr(r.f, \h20) ELSE BitAnd(r.f, \hDF)]
set_flag_c(r, v) ==
    [r EXCEPT !.f = IF v THEN BitOr(r.f, \h10) ELSE BitAnd(r.f, \hEF)]

af(r) == r.a * 256 + r.f
bc(r) == r.b * 256 + r.c
de(r) == r.d * 256 + r.e
hl(r) == r.h * 256 + r.l

\* set_af storing the low byte as it comes.
set_af_unmasked(r, v) == [r EXCEPT !.a = v \div 256, !.f = v % 256]

set_af(r, v) == [r EXCEPT !.a = U8(v \div 256), !.f = BitAnd(U8(v), \hF0)]
set_bc(r, v) == [r EXCEPT !.b = U8(v \div 256), !.c = U8(v)]
set_de(r, v) == [r EXCEPT !.d = U8(v \div 256), !.e = U8(v)]
set_hl(r, v) == [r EXCEPT !.h = U8(v \div 256), !.l = U8(v)]

---------------------------------------------------------------------------
(* mmu.rs                                                                  *)

\* The I/O defaults written at the end of MMU::reset (all other bytes 0).
IoDefaults ==
    (\h00 :> \hCF) @@ (\h10 :> \h80) @@ (\h11 :> \hBF) @@ (\h12 :> \hF3) @@
    (\h14 :> \hBF) @@ (\h16 :> \h3F) @@ (\h19 :> \hBF) @@ (\h1A :> \h7F) @@
    (\h1B :> \hFF) @@ (\h1C :> \h9F) @@ (\h1E :> \hBF) @@ (\h20 :> \hFF) @@
    (\h23 :> \hBF) @@ (\h24 :> \h77) @@ (\h25 :> \hF3) @@ (\h26 :> \hF1) @@
    (\h40 :> \h91) @@ (\h47 :> \hFC) @@ (\h48 :> \hFF) @@ (\h49 :> \hFF)

MMUReset(m) ==
    [m EXCEPT
        !.vram = Empty, !.eram = Empty, !.wram = Empty, !.oam = Empty,
        !.io = [o \in 0..127 |-> IF o \in DOMAIN IoDefaults THEN IoDefaults[o] ELSE 0],
        !.hram = Empty, !.ie = 0,
        !.rom_bank = 1, !.ram_bank = 0, !.ram_enabled = FALSE,
        !.banking_mode = 0, !.vram_bank = 0, !.wram_bank = 1,
        !.cgb_bg_palette_data = Empty, !.cgb_obj_palette_data = Empty,
        !.bgpi = 0, !.obpi = 0,
        !.hdma_active = FALSE, !.hdma_hblank_mode = FALSE,
        !.hdma_src = 0, !.hdma_dst = 0, !.hdma_remaining = 0,
        !.joypad_buttons = \hFF]

MMUNew ==
    MMUReset(
      [rom |-> Empty, rom_len |-> \h8000,
       vram |-> Empty, eram |-> Empty, eram_len |-> \h2000, wram |-> Empty,
       oam |-> Empty, io |-> [o \in 0..127 |-> 0], hram |-> Empty, ie |-> 0,
       rom_bank |-> 1, ram_bank |-> 0, ram_enabled |-> FALSE,
       mbc_type |-> 0, banking_mode |-> 0,
       is_gbc |-> FALSE, vram_bank |-> 0, wram_bank |-> 1,
       vram_banks |-> [i \in 0..1 |-> Empty],
       wram_banks |-> [i \in 0..7 |-> Empty],
       cgb_bg_palette_data |-> Empty, cgb_obj_palette_data |-> Empty,
       bgpi |-> 0, obpi |-> 0,
       hdma_active |-> FALSE, hdma_hblank_mode |-> FALSE,
       hdma_src |-> 0, hdma_dst |-> 0, hdma_remaining |-> 0,
       joypad_buttons |-> \hFF])

\* let ram_sizes = [0, 0x800, 0x2000, 0x8000, 0x20000];
ram_sizes == <<0, \h800, \h2000, \h8000, \h20000>>

\* A cartridge image: data.len bytes, data.bytes the non-zero ones.
MMULoadRom(m, data) ==
    LET m1 == [m EXCEPT
                 !.rom = data.bytes,
                 !.rom_len = IF data.len > \h8000 THEN data.len ELSE \h8000]
        ram_size == Get(data.bytes, \h0149)
    IN  IF data.len > \h0147
        THEN LET m2 == [m1 EXCEPT
                          !.mbc_type = Get(data.bytes, \h0147),
                          !.is_gbc = data.len > \h0143
                                     /\ Get(data.bytes, \h0143) \in {\h80, \hC0}]
             IN  IF data.len > \h0149 /\ ram_size < Len(ram_sizes)
                 THEN [m2 EXCEPT !.eram = Empty,
                                 !.eram_len = ram_sizes[ram_size + 1]]
                 ELSE m2
        ELSE m1

\* if joyp & select == 0 { value &= !(keys & 0x0F); }
joyp_group(value, joyp, select, keys) ==
    IF BitAnd(joyp, select) = 0
    THEN BitAnd(value, BitNot(BitAnd(keys, \h0F)))
    ELSE value

\* The JOYP read: the D-pad group from the upper nibble of joypad_buttons,
\* then the button group from its lower nibble.
joyp_read(joyp, buttons) ==
    joyp_group(joyp_group(BitOr(BitOr(\hC0, BitAnd(joyp, \h30)), \h0F),
                          joyp, \h10, buttons \div 16),
               joyp, \h20, buttons)

\* 0x80 | ((blocks.saturating_sub(1)) as u8 & 0x7F)
hdma5_busy(blocks) ==
    BitOr(\h80, BitAnd(U8(IF blocks = 0 THEN 0 ELSE blocks - 1), \h7F))

read_io(m, addr) ==
    LET offset == addr - \hFF00
    IN  IF offset = \h00 THEN joyp_read(m.io[\h00], m.joypad_buttons)
        ELSE IF m.is_gbc /\ offset = \h4F THEN BitOr(m.vram_bank, \hFE)
        ELSE IF m.is_gbc /\ offset = \h70 THEN BitOr(m.wram_bank, \hF8)
        ELSE IF m.is_gbc /\ offset = \h68 THEN m.bgpi
        ELSE IF m.is_gbc /\ offset = \h69
             THEN Get(m.cgb_bg_palette_data, BitAnd(m.bgpi, \h3F))
        ELSE IF m.is_gbc /\ offset = \h6A THEN m.obpi
        ELSE IF m.is_gbc /\ offset = \h6B
             THEN Get(m.cgb_obj_palette_data, BitAnd(m.obpi, \h3F))
        ELSE IF m.is_gbc /\ offset = \h51 THEN m.hdma_src \div 256
        ELSE IF m.is_gbc /\ offset = \h52 THEN BitAnd(m.hdma_src % 256, \hF0)
        ELSE IF m.is_gbc /\ offset = \h53 THEN BitAnd(m.hdma_dst \div 256, \h1F)
        ELSE IF m.is_gbc /\ offset = \h54 THEN BitAnd(m.hdma_dst % 256, \hF0)
        ELSE IF m.is_gbc /\ offset = \h55
             THEN IF m.hdma_active
                  THEN hdma5_busy((m.hdma_remaining + 15) \div 16)
                  ELSE \hFF
        ELSE m.io[offset]

\* The echo region 0xE000-0xFDFF re-enters read_byte/write_byte at addr - 0x2000.
Unecho(addr) == IF addr >= \hE000 /\ addr <= \hFDFF THEN addr - \h2000 ELSE addr

read_byte(m, addr0) ==
    LET addr == Unecho(addr0)
    IN  IF addr <= \h3FFF
          THEN IF addr < m.rom_len THEN Get(m.rom, addr) ELSE 0
        ELSE IF addr <= \h7FFF
          THEN LET offset == m.rom_bank * \h4000 + (addr - \h4000)
               IN  IF offset < m.rom_len THEN Get(m.rom, offset) ELSE 0
        ELSE IF addr <= \h9FFF
          THEN IF m.is_gbc /\ m.vram_bank < 2
               THEN Get(m.vram_banks[m.vram_bank], addr - \h8000)
               ELSE Get(m.vram, addr - \h8000)
        ELSE IF addr <= \hBFFF
          THEN IF m.ram_enabled
               THEN LET offset == m.ram_bank * \h2000 + (addr - \hA000)
                    IN  IF offset < m.eram_len THEN Get(m.eram, offset) ELSE 0
               ELSE \hFF
        ELSE IF addr <= \hCFFF
          THEN Get(m.wram, addr - \hC000)
        ELSE IF addr <= \hDFFF
          THEN IF m.is_gbc /\ m.wram_bank < 8
               THEN Get(m.wram_banks[m.wram_bank], addr - \hD000)
               ELSE Get(m.wram, addr - \hD000)
        ELSE IF addr <= \hFE9F
          THEN Get(m.oam, addr - \hFE00)
        ELSE IF addr <= \hFEFF
          THEN \hFF
        ELSE IF addr <= \hFF7F
          THEN read_io(m, addr)
        ELSE IF addr <= \hFFFE
          THEN Get(m.hram, addr - \hFF80)
        ELSE m.ie

\* for i in 0..0xa0 { oam[i] = read_byte(src + i) }.  When the source page is
\* OAM itself every byte is read from the index it is written to, so the
\* sequential loop equals the pointwise copy.
Sparse(f) == [i \in {j \in DOMAIN f : f[j] # 0} |-> f[i]]

dma_transfer(m, val) ==
    [m EXCEPT !.oam = Sparse([i \in 0..159 |-> read_byte(m, val * 256 + i)])]

\* The store of one iteration without the test of dst_off.
hdma_store_unbounded(m, dst_off, byte) ==
    IF m.is_gbc /\ m.vram_bank < 2
    THEN [m EXCEPT !.vram_banks[m.vram_bank] = Put(@, dst_off, byte) @@ Empty]
    ELSE [m EXCEPT !.vram = Put(@, dst_off, byte) @@ Empty]

\* One iteration of the while loop of do_hdma_copy.
\* The store of one iteration: into the selected VRAM bank at dst_off,
\* dropped when dst_off is outside the 8 KiB window.  (f @@ Empty is f,
\* tabulated.)
hdma_store(m, dst_off, byte) ==
    IF dst_off < \h2000
    THEN IF m.is_gbc /\ m.vram_bank < 2
         THEN [m EXCEPT !.vram_banks[m.vram_bank] = Put(@, dst_off, byte) @@ Empty]
         ELSE [m EXCEPT !.vram = Put(@, dst_off, byte) @@ Empty]
    ELSE m

hdma_copy_byte(m) ==
    [hdma_store(m, IF m.hdma_dst >= \h8000 THEN m.hdma_dst - \h8000 ELSE 0,
                read_byte(m, m.hdma_src))
       EXCEPT !.hdma_src = U16(m.hdma_src + 1),
              !.hdma_dst = U16(m.hdma_dst + 1),
              !.hdma_remaining = IF m.hdma_remaining = 0 THEN 0
                                 ELSE m.hdma_remaining - 1]

\* while len > 0 { ...; len -= 1 }: len iterations, the first half of them
\* and then the rest.
RECURSIVE do_hdma_copy(_, _)
do_hdma_copy(m, len) ==
    IF len = 0 THEN m
    ELSE IF len = 1 THEN hdma_copy_byte(m)
    ELSE CHOOSE m2 \in {do_hdma_copy(m1, len - len \div 2) :
                            m1 \in {do_hdma_copy(m, len \div 2)}} : TRUE

\* MMU::hdma_hblank_step: one 16-byte block of an armed H-blank transfer.
\* Nothing in the emulator calls it.
hdma_hblank_step(m) ==
    IF ~m.is_gbc \/ ~m.hdma_active \/ ~m.hdma_hblank_mode \/ m.hdma_remaining = 0
    THEN m
    ELSE LET m1 == do_hdma_copy(m, 16)
         IN  IF m1.hdma_remaining = 0
             THEN [m1 EXCEPT !.hdma_active = FALSE, !.hdma_hblank_mode = FALSE,
                             !.io[\h55] = \hFF]
             ELSE [m1 EXCEPT !.io[\h55] =
                     BitOr(\h80, BitAnd(U8((m1.hdma_remaining + 15) \div 16 - 1), \h7F))]

\* The auto-incrementing palette index: (i & 0x80) | ((i + 1) & 0x3F) when
\* bit 7 is set.
palette_index_next(i) ==
    IF BitAnd(i, \h80) # 0
    THEN BitOr(BitAnd(i, \h80), BitAnd(U8(i + 1), \h3F))
    ELSE i

\* The HDMA5 write of `blocks` 16-byte blocks: the general-purpose copy at
\* once, or the H-blank transfer armed.
hdma5_write(m, val, blocks) ==
    IF BitAnd(val, \h80) = 0
    THEN [do_hdma_copy([m EXCEPT !.hdma_active = FALSE], blocks * 16)
            EXCEPT !.io[\h55] = \hFF]
    ELSE [m EXCEPT !.hdma_active = TRUE, !.hdma_hblank_mode = TRUE,
                   !.hdma_remaining = blocks * 16,
                   !.io[\h55] = BitOr(\h80, BitAnd(U8(blocks - 1), \h7F))]

\* The work-RAM bank taken as written, 0 included.
wram_bank_as_written(val) == BitAnd(val, \h07)

\* let bank = (val & 0x07) as usize;
\* self.wram_bank = if bank == 0 { 1 } else { bank };
wram_bank_select(val) == IF BitAnd(val, \h07) = 0 THEN 1 ELSE BitAnd(val, \h07)

write_io(m, addr, val) ==
    LET offset == addr - \hFF00
    IN  IF offset = \h00
          THEN [m EXCEPT !.io[\h00] = BitOr(BitAnd(@, \hCF), BitAnd(val, \h30))]
        ELSE IF offset = \h04 THEN [m EXCEPT !.io[offset] = 0]
        ELSE IF offset = \h41
          THEN [m EXCEPT !.io[offset] = BitOr(BitAnd(@, \h07), BitAnd(val, \hF8))]
        ELSE IF offset = \h44 THEN m
        ELSE IF offset = \h46
          THEN [dma_transfer(m, val) EXCEPT !.io[offset] = val]
        ELSE IF m.is_gbc /\ offset = \h4F
          THEN [m EXCEPT !.vram_bank = BitAnd(val, \h01)]
        ELSE IF m.is_gbc /\ offset = \h70
          THEN [m EXCEPT !.wram_bank = wram_bank_select(val)]
        ELSE IF m.is_gbc /\ offset = \h51
          THEN [m EXCEPT !.hdma_src = (@ % 256) + val * 256]
        ELSE IF m.is_gbc /\ offset = \h52
          THEN [m EXCEPT !.hdma_src = (@ \div 256) * 256 + BitAnd(val, \hF0)]
        ELSE IF m.is_gbc /\ offset = \h53
          THEN [m EXCEPT !.hdma_dst = (@ % 256)
                                      + BitOr(BitAnd(val, \h1F), \h80) * 256]
        ELSE IF m.is_gbc /\ offset = \h54
          THEN [m EXCEPT !.hdma_dst = (@ \div 256) * 256 + BitAnd(val, \hF0)]
        ELSE IF m.is_gbc /\ offset = \h68
          THEN [m EXCEPT !.bgpi = BitAnd(val, \hBF)]
        ELSE IF m.is_gbc /\ offset = \h69
          THEN [m EXCEPT
                 !.cgb_bg_palette_data = Put(@, BitAnd(m.bgpi, \h3F), val),
                 !.bgpi = palette_index_next(m.bgpi)]
        ELSE IF m.is_gbc /\ offset = \h6A
          THEN [m EXCEPT !.obpi = BitAnd(val, \hBF)]
        ELSE IF m.is_gbc /\ offset = \h6B
          THEN [m EXCEPT
                 !.cgb_obj_palette_data = Put(@, BitAnd(m.obpi, \h3F), val),
                 !.obpi = palette_index_next(m.obpi)]
        ELSE IF m.is_gbc /\ offset = \h55
          THEN hdma5_write(m, val, BitAnd(val, \h7F) + 1)
        ELSE [m EXCEPT !.io[offset] = val]

\* The bank number taken as written, 0 included.
rom_bank_low_as_written(val) == BitAnd(val, \h1F)

\* let mut bank = (val & 0x1f) as usize; if bank == 0 { bank = 1; }
rom_bank_low(val) == IF BitAnd(val, \h1F) = 0 THEN 1 ELSE BitAnd(val, \h1F)

\* The RAM-enable latch set by the whole byte 0x0A only.
ram_enable_whole_byte(val) == val = \h0A

\* (val & 0x0f) == 0x0a
ram_enable(val) == BitAnd(val, \h0F) = \h0A

write_byte(m, addr0, val) ==
    LET addr == Unecho(addr0)
        bank == rom_bank_low(val)
    IN  IF addr <= \h1FFF
          THEN [m EXCEPT !.ram_enabled = ram_enable(val)]
        ELSE IF addr <= \h3FFF
          THEN [m EXCEPT !.rom_bank = BitOr(BitAnd(m.rom_bank, \h60), bank)]
        ELSE IF addr <= \h5FFF
          THEN IF m.banking_mode = 0
               THEN [m EXCEPT !.rom_bank = BitOr(BitAnd(m.rom_bank, \h1F),
                                                 BitAnd(val, \h03) * 32)]
               ELSE [m EXCEPT !.ram_bank = BitAnd(val, \h03)]
        ELSE IF addr <= \h7FFF
          THEN [m EXCEPT !.banking_mode = BitAnd(val, \h01)]
        ELSE IF addr <= \h9FFF
          THEN IF m.is_gbc /\ m.vram_bank < 2
               THEN [m EXCEPT !.vram_banks[m.vram_bank] = Put(@, addr - \h8000, val)]
               ELSE [m EXCEPT !.vram = Put(@, addr - \h8000, val)]
        ELSE IF addr <= \hBFFF
          THEN LET offset == m.ram_bank * \h2000 + (addr - \hA000)
               IN  IF m.ram_enabled /\ offset < m.eram_len
                   THEN [m EXCEPT !.eram = Put(@, offset, val)]
                   ELSE m
        ELSE IF addr <= \hCFFF
          THEN [m EXCEPT !.wram = Put(@, addr - \hC000, val)]
        ELSE IF addr <= \hDFFF
          THEN IF m.is_gbc /\ m.wram_bank < 8
               THEN [m EXCEPT !.wram_banks[m.wram_bank] = Put(@, addr - \hD000, val)]
               ELSE [m EXCEPT !.wram = Put(@, addr - \hD000, val)]
        ELSE IF addr <= \hFE9F
          THEN [m EXCEPT !.oam = Put(@, addr - \hFE00, val)]
        ELSE IF addr <= \hFEFF
          THEN m
        ELSE IF addr <= \hFF7F
          THEN write_io(m, addr, val)
        ELSE IF addr <= \hFFFE
          THEN [m EXCEPT !.hram = Put(@, addr - \hFF80, val)]
        ELSE [m EXCEPT !.ie = val]

joypad_press(m, bit) ==
    [m EXCEPT !.joypad_buttons = ClearBit(@, bit),
              !.io[\h0F] = BitOr(@, \h10)]

joypad_release(m, bit) == [m EXCEPT !.joypad_buttons = SetBit(@, bit)]

---------------------------------------------------------------------------
(* timer.rs                                                                *)

TimerNew == [div_counter |-> 0, tima_counter |-> 0]

\* let frequencies = [1024, 16, 64, 256];
frequencies == <<1024, 16, 64, 256>>

\* Timer::step reloading TIMA with zero on overflow.
TimerStepReloadZero(t, cycles, io) ==
    LET dc == t.div_counter + cycles
        t1 == [t EXCEPT !.div_counter = IF dc >= 256 THEN dc - 256 ELSE dc]
        io1 == IF dc >= 256 THEN [io EXCEPT ![\h04] = U8(@ + 1)] ELSE io
        tac == io1[\h07]
        frequency == frequencies[BitAnd(tac, \h03) + 1]
        tc == t.tima_counter + cycles
        tima == io1[\h05]
    IN  IF BitAnd(tac, \h04) # 0
        THEN IF tc >= frequency
             THEN [timer |-> [t1 EXCEPT !.tima_counter = tc - frequency],
                   io |-> IF tima = \hFF
                          THEN [io1 EXCEPT ![\h05] = 0,
                                           ![\h0F] = BitOr(@, \h04)]
                          ELSE [io1 EXCEPT ![\h05] = U8(tima + 1)]]
             ELSE [timer |-> [t1 EXCEPT !.tima_counter = tc], io |-> io1]
        ELSE [timer |-> t1, io |-> io1]

\* Timer::step(cycles, io): the new timer and the new I/O block.
TimerStep(t, cycles, io) ==
    LET dc == t.div_counter + cycles
        t1 == [t EXCEPT !.div_counter = IF dc >= 256 THEN dc - 256 ELSE dc]
        io1 == IF dc >= 256 THEN [io EXCEPT ![\h04] = U8(@ + 1)] ELSE io
        tac == io1[\h07]
        frequency == frequencies[BitAnd(tac, \h03) + 1]
        tc == t.tima_counter + cycles
        tima == io1[\h05]
    IN  IF BitAnd(tac, \h04) # 0
        THEN IF tc >= frequency
             THEN [timer |-> [t1 EXCEPT !.tima_counter = tc - frequency],
                   io |-> IF tima = \hFF
                          THEN [io1 EXCEPT ![\h05] = io1[\h06],
                                           ![\h0F] = BitOr(@, \h04)]
                          ELSE [io1 EXCEPT ![\h05] = U8(tima + 1)]]
             ELSE [timer |-> [t1 EXCEPT !.tima_counter = tc], io |-> io1]
        ELSE [timer |-> t1, io |-> io1]

---------------------------------------------------------------------------
(* apu.rs, input.rs                                                        *)

APUNew == [accum_cycles |-> 0]

\* APU::step: the wrapping add, then the fold into 20 bits once above 1 << 20.
APUStep(a, cycles) ==
    LET acc == a.accum_cycles + cycles   \* at most (1 << 20) + cycles: no wrap
    IN  [a EXCEPT !.accum_cycles = IF acc > 1048576 THEN acc % 1048576 ELSE acc]

InputNew == [buttons |-> \hFF]

---------------------------------------------------------------------------
(* ppu.rs                                                                  *)

SCREEN_WIDTH == 160
SCREEN_HEIGHT == 144

MODE_HBLANK == 0
MODE_VBLANK == 1
MODE_OAM_SCAN == 2
MODE_DRAWING == 3

MODE_OAM_CYCLES == 80
MODE_DRAWING_CYCLES == 172
SCANLINE_CYCLES == 456

\* A framebuffer row is the function from the first column of each run of
\* equal pixels to that run's RGBA pixel; BlankRow is 160 pixels of 0xff bytes.
White == <<255, 255, 255, 255>>
BlankRow == (0 :> White)

RowOf(px(_)) ==
    LET starts == {x \in 0..(SCREEN_WIDTH - 1) : x = 0 \/ px(x) # px(x - 1)}
    IN  [x \in starts |-> px(x)]

\* The framebuffer maps a line to its row; a line it does not hold is white.
RowAt(fb, ly) == IF ly \in DOMAIN fb THEN fb[ly] ELSE BlankRow

SetRow(fb, ly, row) ==
    IF row = BlankRow
    THEN [y \in (DOMAIN fb) \ {ly} |-> fb[y]]
    ELSE [y \in (DOMAIN fb) \cup {ly} |-> IF y = ly THEN row ELSE fb[y]]

PixelAt(fb, ly, x) ==
    LET row == RowAt(fb, ly)
        start == CHOOSE b \in DOMAIN row :
                     b <= x /\ \A c \in DOMAIN row : c <= x => c <= b
    IN  row[start]

PPUNew ==
    [frame_buffer |-> Empty, scanline_counter |-> 0]

\* The PPU operations below act on a context c = [mmu, ppu, reqs, rendered,
\* panic]: the two objects PPU::step borrows, two observation lists: the
\* interrupts request_interrupt was called for and the LY values
\* render_scanline drew, in order, during the current step, and whether a
\* framebuffer bounds check of the step failed.
\* read_byte(0xff0f) and write_byte(0xff0f, v) reach the last arm of
\* read_io and of write_io: the byte io[0x0f] itself.
request_interrupt(c, interrupt) ==
    [c EXCEPT !.mmu.io[\h0F] = SetBit(@, interrupt),
              !.reqs = Append(@, interrupt)]

get_ly(m) == m.io[\h44]
get_mode(m) == BitAnd(m.io[\h41], \h03)

set_ly(c, value) == [c EXCEPT !.mmu.io[\h44] = value]

set_mode(c, mode) ==
    LET stat == c.mmu.io[\h41]
        stat_interrupt_enabled ==
            IF mode # MODE_VBLANK THEN Bit(stat, mode + 3) ELSE 0
        c1 == [c EXCEPT !.mmu.io[\h41] =
                          BitOr(BitAnd(stat, \hFC), BitAnd(mode, \h03))]
    IN  IF stat_interrupt_enabled # 0 THEN request_interrupt(c1, 1) ELSE c1

\* check_lyc leaving the flag set once it is.
check_lyc_flag_sticks(c) ==
    LET ly == c.mmu.io[\h44]
        lyc == c.mmu.io[\h45]
        stat == c.mmu.io[\h41]
    IN  IF ly = lyc
        THEN LET c1 == [c EXCEPT !.mmu.io[\h41] = BitOr(stat, \h04)]
             IN  IF BitAnd(stat, \h40) # 0 THEN request_interrupt(c1, 1) ELSE c1
        ELSE c

check_lyc(c) ==
    LET ly == c.mmu.io[\h44]
        lyc == c.mmu.io[\h45]
        stat == c.mmu.io[\h41]
    IN  IF ly = lyc
        THEN LET c1 == [c EXCEPT !.mmu.io[\h41] = BitOr(stat, \h04)]
             IN  IF BitAnd(stat, \h40) # 0 THEN request_interrupt(c1, 1) ELSE c1
        ELSE [c EXCEPT !.mmu.io[\h41] = BitAnd(stat, \hFB)]

\* DMG palette; the alpha byte set_pixel_rgb writes is 255.
get_color(color) ==
    CASE BitAnd(color, \h03) = 0 -> <<224, 248, 208, 255>>
      [] BitAnd(color, \h03) = 1 -> <<136, 192, 112, 255>>
      [] BitAnd(color, \h03) = 2 -> <<52, 104, 86, 255>>
      [] OTHER -> <<8, 24, 32, 255>>

\* The pixel render_background writes at column x of line ly.
background_pixel(m, ly, x) ==
    LET lcdc == m.io[\h40]
        scy == m.io[\h42]
        scx == m.io[\h43]
        bgp == m.io[\h47]
        tile_map_base == IF BitAnd(lcdc, \h08) # 0 THEN \h9C00 ELSE \h9800
        tile_data_base == IF BitAnd(lcdc, \h10) # 0 THEN \h8000 ELSE \h8800
        signed_tile_data == BitAnd(lcdc, \h10) = 0
        y == U8(ly + scy)
        tile_y == (y \div 8) % 32
        x_pos == U8(x + scx)
        tile_x == (x_pos \div 8) % 32
        tile_index == tile_y * 32 + tile_x
        tile_num == read_byte(m, tile_map_base + tile_index)
        tile_addr == IF signed_tile_data
                     THEN U16(tile_data_base + U16(U16(SignExt(tile_num) + 128) * 16))
                     ELSE tile_data_base + tile_num * 16
        tile_line == (y % 8) * 2
        byte1 == read_byte(m, tile_addr + tile_line)
        byte2 == read_byte(m, tile_addr + tile_line + 1)
        bit_pos == 7 - (x_pos % 8)
        color_num == Bit(byte2, bit_pos) * 2 + Bit(byte1, bit_pos)
        color == (bgp \div (2 ^ (color_num * 2))) % 4
    IN  get_color(color)

\* vec![0xff; SCREEN_WIDTH * SCREEN_HEIGHT * 4]
frame_buffer_len == SCREEN_WIDTH * SCREEN_HEIGHT * 4

\* The pixel index counting lines from 1.
pixel_index_line_from_one(ly, x) == ((ly + 1) * SCREEN_WIDTH + x) * 4

\* let idx = (ly as usize * SCREEN_WIDTH + x) * 4;
\* (the clearing loop's line_start + x * 4 is the same number)
pixel_index(ly, x) == (ly * SCREEN_WIDTH + x) * 4

\* if idx + 3 >= self.frame_buffer.len() { panic!(...) }
pixel_overflow(ly, x) == pixel_index(ly, x) + 3 >= frame_buffer_len

\* render_scanline: clear the row to white, then the background layer when
\* LCDC bit 0 is set.  The window and sprite layers sit behind `false &&`.
\* Both loops check every pixel's index before they write.
render_scanline(c) ==
    LET lcdc == c.mmu.io[\h40]
        ly == get_ly(c.mmu)
        px(x) == background_pixel(c.mmu, ly, x)
    IN  IF ly >= SCREEN_HEIGHT THEN c
        ELSE IF \E x \in 0..(SCREEN_WIDTH - 1) : pixel_overflow(ly, x)
        THEN [c EXCEPT !.panic = TRUE]
        ELSE [c EXCEPT
                !.ppu.frame_buffer =
                    SetRow(@, ly, IF BitAnd(lcdc, \h01) # 0 THEN RowOf(px) ELSE BlankRow),
                !.rendered = Append(@, ly)]

\* The mode update drawing the line on every step of the Drawing range.
mode_update_draws_every_step(c, ly) ==
    IF ly < 144
    THEN IF c.ppu.scanline_counter < MODE_OAM_CYCLES
         THEN set_mode(c, MODE_OAM_SCAN)
         ELSE IF c.ppu.scanline_counter < MODE_OAM_CYCLES + MODE_DRAWING_CYCLES
         THEN render_scanline(set_mode(c, MODE_DRAWING))
         ELSE IF get_mode(c.mmu) # MODE_HBLANK
              THEN set_mode(c, MODE_HBLANK)
              ELSE c
    ELSE c

\* The mode update without its test of the line.
mode_update_every_line(c, ly) ==
    IF c.ppu.scanline_counter < MODE_OAM_CYCLES
    THEN set_mode(c, MODE_OAM_SCAN)
    ELSE IF c.ppu.scanline_counter < MODE_OAM_CYCLES + MODE_DRAWING_CYCLES
    THEN IF get_mode(c.mmu) # MODE_DRAWING
         THEN render_scanline(set_mode(c, MODE_DRAWING))
         ELSE c
    ELSE IF get_mode(c.mmu) # MODE_HBLANK
         THEN set_mode(c, MODE_HBLANK)
         ELSE c

\* The "Mode update" block of PPU::step, for the line ly the step began on.
mode_update(c, ly) ==
    IF ly < 144
    THEN IF c.ppu.scanline_counter < MODE_OAM_CYCLES
         THEN set_mode(c, MODE_OAM_SCAN)
         ELSE IF c.ppu.scanline_counter < MODE_OAM_CYCLES + MODE_DRAWING_CYCLES
         THEN IF get_mode(c.mmu) # MODE_DRAWING
              THEN render_scanline(set_mode(c, MODE_DRAWING))
              ELSE c
         ELSE IF get_mode(c.mmu) # MODE_HBLANK
              THEN set_mode(c, MODE_HBLANK)
              ELSE c
    ELSE c

\* The end of a scanline after set_ly(new_ly) and check_lyc: V-blank at
\* line 144 (the step returns true), else the mode update.
line_end(c, ly, new_ly) ==
    IF new_ly = 144
    THEN [c |-> request_interrupt(set_mode(c, MODE_VBLANK), 0), ret |-> TRUE]
    ELSE [c |-> mode_update(IF new_ly = 0 THEN set_mode(c, MODE_OAM_SCAN) ELSE c, ly),
          ret |-> FALSE]

\* PPU::step with the LCD on, the line number not wrapped at 154.
lcd_step_unwrapped(c, ly, counter) ==
    IF counter >= SCANLINE_CYCLES
    THEN line_end(check_lyc(set_ly([c EXCEPT !.ppu.scanline_counter =
                                               counter - SCANLINE_CYCLES],
                                   ly + 1)),
                  ly, ly + 1)
    ELSE [c |-> mode_update([c EXCEPT !.ppu.scanline_counter = counter], ly),
          ret |-> FALSE]

\* PPU::step with the LCD on: counter is scanline_counter + cycles.
lcd_step(c, ly, counter) ==
    IF counter >= SCANLINE_CYCLES
    THEN line_end(check_lyc(set_ly([c EXCEPT !.ppu.scanline_counter =
                                               counter - SCANLINE_CYCLES],
                                   (ly + 1) % 154)),
                  ly, (ly + 1) % 154)
    ELSE [c |-> mode_update([c EXCEPT !.ppu.scanline_counter = counter], ly),
          ret |-> FALSE]

\* PPU::step adding the cycles to the counter before the test of LCDC.
PPUStepCountsWhileOff(m, p, cycles) ==
    IF BitAnd(m.io[\h40], \h80) = 0
    THEN [c |-> [mmu |-> m,
                 ppu |-> [p EXCEPT !.scanline_counter = @ + cycles],
                 reqs |-> <<>>, rendered |-> <<>>, panic |-> FALSE],
          ret |-> FALSE]
    ELSE lcd_step([mmu |-> m, ppu |-> p, reqs |-> <<>>, rendered |-> <<>>, panic |-> FALSE],
                  get_ly(m), p.scanline_counter + cycles)

\* PPU::step(mmu, cycles): the context after the step and the value returned.
PPUStep(m, p, cycles) ==
    IF BitAnd(m.io[\h40], \h80) = 0
    THEN [c |-> [mmu |-> m, ppu |-> p, reqs |-> <<>>, rendered |-> <<>>, panic |-> FALSE],
          ret |-> FALSE]
    ELSE lcd_step([mmu |-> m, ppu |-> p, reqs |-> <<>>, rendered |-> <<>>, panic |-> FALSE],
                  get_ly(m), p.scanline_counter + cycles)

\* PPU::reset
PPUReset(m, p) ==
    LET c0 == [mmu |-> m,
               ppu |-> [p EXCEPT !.frame_buffer = Empty, !.scanline_counter = 0],
               reqs |-> <<>>, rendered |-> <<>>, panic |-> FALSE]
    IN  set_ly(set_mode(c0, MODE_OAM_SCAN), 0)

---------------------------------------------------------------------------
(* lib.rs: the 8-bit ALU.  Each operation maps the register file to the    *)
(* register file; inc8/dec8 also yield the result byte.                    *)

add8(r, value) ==
    LET result == U8(r.a + value)
        r1 == set_flag_z(r, result = 0)
        r2 == set_flag_n(r1, FALSE)
        r3 == set_flag_h(r2, BitAnd(r.a, \h0F) + BitAnd(value, \h0F) > \h0F)
        r4 == set_flag_c(r3, r.a + value > \hFF)
    IN  [r4 EXCEPT !.a = result]

adc8(r, value) ==
    LET carry == IF flag_c(r) THEN 1 ELSE 0
        result == U8(U8(r.a + value) + carry)
        r1 == set_flag_z(r, result = 0)
        r2 == set_flag_n(r1, FALSE)
        r3 == set_flag_h(r2, BitAnd(r.a, \h0F) + BitAnd(value, \h0F) + carry > \h0F)
        r4 == set_flag_c(r3, r.a + value + carry > \hFF)
    IN  [r4 EXCEPT !.a = result]

sub8(r, value) ==
    LET result == U8(r.a - value)
        r1 == set_flag_z(r, result = 0)
        r2 == set_flag_n(r1, TRUE)
        r3 == set_flag_h(r2, BitAnd(r.a, \h0F) < BitAnd(value, \h0F))
        r4 == set_flag_c(r3, r.a < value)
    IN  [r4 EXCEPT !.a = result]

\* sbc8 whose half-borrow test leaves the incoming carry out.
sbc8_half_borrow_without_carry(r, value) ==
    LET carry == IF flag_c(r) THEN 1 ELSE 0
        result == U8(U8(r.a - value) - carry)
        r1 == set_flag_z(r, result = 0)
        r2 == set_flag_n(r1, TRUE)
        r3 == set_flag_h(r2, BitAnd(r.a, \h0F) < BitAnd(value, \h0F))
        r4 == set_flag_c(r3, r.a < value + carry)
    IN  [r4 EXCEPT !.a = result]

sbc8(r, value) ==
    LET carry == IF flag_c(r) THEN 1 ELSE 0
        result == U8(U8(r.a - value) - carry)
        r1 == set_flag_z(r, result = 0)
        r2 == set_flag_n(r1, TRUE)
        r3 == set_flag_h(r2, BitAnd(r.a, \h0F) < BitAnd(value, \h0F) + carry)
        r4 == set_flag_c(r3, r.a < value + carry)
    IN  [r4 EXCEPT !.a = result]

and8(r, value) ==
    LET r0 == [r EXCEPT !.a = BitAnd(r.a, value)]
    IN  set_flag_c(set_flag_h(set_flag_n(set_flag_z(r0, r0.a = 0), FALSE), TRUE), FALSE)

xor8(r, value) ==
    LET r0 == [r EXCEPT !.a = BitXor(r.a, value)]
    IN  set_flag_c(set_flag_h(set_flag_n(set_flag_z(r0, r0.a = 0), FALSE), FALSE), FALSE)

or8(r, value) ==
    LET r0 == [r EXCEPT !.a = BitOr(r.a, value)]
    IN  set_flag_c(set_flag_h(set_flag_n(set_flag_z(r0, r0.a = 0), FALSE), FALSE), FALSE)

cp8(r, value) ==
    LET result == U8(r.a - value)
        r1 == set_flag_z(r, result = 0)
        r2 == set_flag_n(r1, TRUE)
        r3 == set_flag_h(r2, BitAnd(r.a, \h0F) < BitAnd(value, \h0F))
    IN  set_flag_c(r3, r.a < value)

inc8(r, value) ==
    LET result == U8(value + 1)
        r1 == set_flag_z(r, result = 0)
        r2 == set_flag_n(r1, FALSE)
    IN  [regs |-> set_flag_h(r2, BitAnd(value, \h0F) = \h0F), result |-> result]

dec8(r, value) ==
    LET result == U8(value - 1)
        r1 == set_flag_z(r, result = 0)
        r2 == set_flag_n(r1, TRUE)
    IN  [regs |-> set_flag_h(r2, BitAnd(value, \h0F) = 0), result |-> result]

---------------------------------------------------------------------------
(* lib.rs: the execution core.  The CPU operations act on the record       *)
(* g = [mmu, registers, cycles, halted, ime, ime_scheduled,                *)
(* last_interrupt], the fields of GameBoy that step_cpu can touch.  The    *)
(* opcode trace ring is off (trace_enabled is false unless the host calls  *)
(* enable_trace, which the model never does) and is left out.              *)

add_hl(r, value) ==
    LET h0 == hl(r)
        result == U16(h0 + value)
        r1 == set_flag_n(r, FALSE)
        r2 == set_flag_h(r1, (h0 % 4096) + (value % 4096) > \h0FFF)
        r3 == set_flag_c(r2, h0 + value > \hFFFF)
    IN  set_hl(r3, result)

\* set_flag_z(z); set_flag_n(FALSE); set_flag_h(FALSE); set_flag_c(c): the
\* flag tail shared by the rotate and shift helpers.
rot_flags(r, z, c) ==
    set_flag_c(set_flag_h(set_flag_n(set_flag_z(r, z), FALSE), FALSE), c)

rlca(r) ==
    LET carry == r.a \div 128
    IN  rot_flags([r EXCEPT !.a = U8(r.a * 2) + carry], FALSE, carry = 1)

rrca(r) ==
    LET carry == r.a % 2
    IN  rot_flags([r EXCEPT !.a = (r.a \div 2) + carry * 128], FALSE, carry = 1)

rla(r) ==
    LET carry == IF flag_c(r) THEN 1 ELSE 0
        new_carry == r.a \div 128
    IN  rot_flags([r EXCEPT !.a = U8(r.a * 2) + carry], FALSE, new_carry = 1)

rra(r) ==
    LET carry == IF flag_c(r) THEN 1 ELSE 0
        new_carry == r.a % 2
    IN  rot_flags([r EXCEPT !.a = (r.a \div 2) + carry * 128], FALSE, new_carry = 1)

rlc(r, value) ==
    LET carry == value \div 128
        result == U8(value * 2) + carry
    IN  [regs |-> rot_flags(r, result = 0, carry = 1), result |-> result]

rrc(r, value) ==
    LET carry == value % 2
        result == (value \div 2) + carry * 128
    IN  [regs |-> rot_flags(r, result = 0, carry = 1), result |-> result]

rl(r, value) ==
    LET carry == IF flag_c(r) THEN 1 ELSE 0
        result == U8(value * 2) + carry
    IN  [regs |-> rot_flags(r, result = 0, value \div 128 = 1), result |-> result]

rr(r, value) ==
    LET carry == IF flag_c(r) THEN 1 ELSE 0
        result == (value \div 2) + carry * 128
    IN  [regs |-> rot_flags(r, result = 0, value % 2 = 1), result |-> result]

sla(r, value) ==
    LET result == U8(value * 2)
    IN  [regs |-> rot_flags(r, result = 0, value \div 128 = 1), result |-> result]

sra(r, value) ==
    LET result == (value \div 2) + (value \div 128) * 128
    IN  [regs |-> rot_flags(r, result = 0, value % 2 = 1), result |-> result]

srl(r, value) ==
    LET result == value \div 2
    IN  [regs |-> rot_flags(r, result = 0, value % 2 = 1), result |-> result]

swap(r, value) ==
    LET result == (value \div 16) + (value % 16) * 16
    IN  [regs |-> rot_flags(r, result = 0, FALSE), result |-> result]

\* daa with the low digit adjusted on the half-carry flag alone.
daa_half_carry_only(r) ==
    LET a0 == r.a
        addc == ~flag_n(r) /\ (flag_c(r) \/ a0 > \h99)
        a1 == IF addc THEN U8(a0 + \h60) ELSE a0
        r1 == IF addc THEN set_flag_c(r, TRUE) ELSE r
        a2 == IF flag_h(r1) THEN U8(a1 + 6) ELSE a1
        s1 == IF flag_c(r) THEN U8(a0 - \h60) ELSE a0
        s2 == IF flag_h(r) THEN U8(s1 - 6) ELSE s1
        a == IF ~flag_n(r) THEN a2 ELSE s2
    IN  set_flag_h(set_flag_z([r1 EXCEPT !.a = a], a = 0), FALSE)

daa(r) ==
    LET a0 == r.a
        addc == ~flag_n(r) /\ (flag_c(r) \/ a0 > \h99)
        a1 == IF addc THEN U8(a0 + \h60) ELSE a0
        r1 == IF addc THEN set_flag_c(r, TRUE) ELSE r
        a2 == IF flag_h(r1) \/ (a1 % 16) > 9 THEN U8(a1 + 6) ELSE a1
        s1 == IF flag_c(r) THEN U8(a0 - \h60) ELSE a0
        s2 == IF flag_h(r) THEN U8(s1 - 6) ELSE s1
        a == IF ~flag_n(r) THEN a2 ELSE s2
    IN  set_flag_h(set_flag_z([r1 EXCEPT !.a = a], a = 0), FALSE)

\* Option<u8> and Option<(u8, u16, u8, u8)>: None is <<>>, Some(x) is <<x>>.
None == <<>>
Some(x) == <<x>>

\* self.cycles += n on the u32 accumulator
Cyc(g, n) == [g EXCEPT !.cycles = Add32(@, n)]

\* One instruction's accesses to memory.  The operations of a CPU step
\* take bus, the byte self.mmu.read_byte returns at each address when the
\* step begins, and work on the core record extended by the field stores,
\* the self.mmu.write_byte calls the step has made so far, in order:
\* bus[addr] is a read_byte call and Store a write_byte call, and step_cpu
\* applies the stores when the step ends.  No path of step_cpu reads an
\* address after writing one that could change what the read returns: the
\* opcode arms read before they write, and handle_interrupt reads IE
\* (0xFFFF) after a write to IF (0xFF0F), which leaves IE alone.
Store(g, addr, val) == [g EXCEPT !.stores = Append(@, <<addr, val>>)]

\* push_word storing the low byte first, at the higher address.
push_word_low_first(g, val) ==
    [Store(Store(g, U16(g.registers.sp - 1), val % 256),
           U16(g.registers.sp - 2), val \div 256)
       EXCEPT !.registers.sp = U16(g.registers.sp - 2)]

push_word(g, val) ==
    [Store(Store(g, U16(g.registers.sp - 1), val \div 256),
           U16(g.registers.sp - 2), val % 256)
       EXCEPT !.registers.sp = U16(g.registers.sp - 2)]

pop_word(g, bus) ==
    [g |-> [g EXCEPT !.registers.sp = U16(@ + 2)],
     val |-> bus[U16(g.registers.sp + 1)] * 256 + bus[g.registers.sp]]

get_reg8(g, bus, index) ==
    CASE index = 0 -> g.registers.b
      [] index = 1 -> g.registers.c
      [] index = 2 -> g.registers.d
      [] index = 3 -> g.registers.e
      [] index = 4 -> g.registers.h
      [] index = 5 -> g.registers.l
      [] index = 6 -> bus[hl(g.registers)]
      [] index = 7 -> g.registers.a

set_reg8(g, index, value) ==
    CASE index = 0 -> [g EXCEPT !.registers.b = value]
      [] index = 1 -> [g EXCEPT !.registers.c = value]
      [] index = 2 -> [g EXCEPT !.registers.d = value]
      [] index = 3 -> [g EXCEPT !.registers.e = value]
      [] index = 4 -> [g EXCEPT !.registers.h = value]
      [] index = 5 -> [g EXCEPT !.registers.l = value]
      [] index = 6 -> Store(g, hl(g.registers), value)
      [] index = 7 -> [g EXCEPT !.registers.a = value]

alu(r, op, value) ==
    CASE op = 0 -> add8(r, value)
      [] op = 1 -> adc8(r, value)
      [] op = 2 -> sub8(r, value)
      [] op = 3 -> sbc8(r, value)
      [] op = 4 -> and8(r, value)
      [] op = 5 -> xor8(r, value)
      [] op = 6 -> or8(r, value)
      [] op = 7 -> cp8(r, value)

\* ld_rr (0x40-0x7F but 0x76)
ld_rr(g, bus, opcode) ==
    LET dst == (opcode \div 8) % 8
        src == opcode % 8
    IN  Cyc(set_reg8(g, dst, get_reg8(g, bus, src)), IF src = 6 \/ dst = 6 THEN 8 ELSE 4)

\* alu_op (0x80-0xBF)
alu_op(g, bus, opcode) ==
    LET op == (opcode \div 8) % 8
        reg == opcode % 8
    IN  Cyc([g EXCEPT !.registers = alu(@, op, get_reg8(g, bus, reg))],
            IF reg = 6 THEN 8 ELSE 4)

rst(g, addr) == Cyc([push_word(g, g.registers.pc) EXCEPT !.registers.pc = addr], 16)

\* The branch condition of the conditional JR/JP/CALL/RET arms:
\* 0 = NZ, 1 = Z, 2 = NC, 3 = C.
Taken(r, k) ==
    CASE k = 0 -> ~flag_z(r)
      [] k = 1 -> flag_z(r)
      [] k = 2 -> ~flag_c(r)
      [] k = 3 -> flag_c(r)

\* execute_cb_opcode: rotate/shift, BIT, RES, SET on register index reg.
execute_cb_opcode(g, bus, opcode) ==
    LET reg == opcode % 8
        bit == (opcode \div 8) % 8
        op == opcode \div 64
        value == get_reg8(g, bus, reg)
        r == g.registers
        sh == CASE bit = 0 -> rlc(r, value)
                [] bit = 1 -> rrc(r, value)
                [] bit = 2 -> rl(r, value)
                [] bit = 3 -> rr(r, value)
                [] bit = 4 -> sla(r, value)
                [] bit = 5 -> sra(r, value)
                [] bit = 6 -> swap(r, value)
                [] bit = 7 -> srl(r, value)
    IN  CASE op = 0 ->
                Cyc(set_reg8([g EXCEPT !.registers = sh.regs], reg, sh.result),
                    IF reg = 6 THEN 16 ELSE 8)
          [] op = 1 ->
                Cyc([g EXCEPT !.registers =
                        set_flag_h(set_flag_n(set_flag_z(@, Bit(value, bit) = 0),
                                              FALSE), TRUE)],
                    IF reg = 6 THEN 12 ELSE 8)
          [] op = 2 ->
                Cyc(set_reg8(g, reg, ClearBit(value, bit)), IF reg = 6 THEN 16 ELSE 8)
          [] op = 3 ->
                Cyc(set_reg8(g, reg, SetBit(value, bit)), IF reg = 6 THEN 16 ELSE 8)

\* ADD SP,n and LD HL,SP+n: the sum and the two flags computed from it
sp_plus(r, n) ==
    LET off == U16(SignExt(n))
    IN  [result |-> U16(r.sp + off),
         regs |-> set_flag_c(set_flag_h(set_flag_n(set_flag_z(r, FALSE), FALSE),
                                        (r.sp % 16) + (off % 16) > \h0F),
                             (r.sp % 256) + (off % 256) > \hFF)]

\* The opcodes of no arm: execute_extended_opcode's catch-all.
UndefinedOpcodes ==
    {\hD3, \hDB, \hDD, \hE3, \hE4, \hEB, \hEC, \hED, \hF4, \hFC, \hFD}

\* execute_opcode and execute_extended_opcode, one arm per match arm (arms of
\* one shape are folded by their opcode bit fields).
execute_opcode(g, bus, opcode) ==
    LET r == g.registers
        n == bus[r.pc]
        nn == bus[U16(r.pc + 1)] * 256 + n
        g1 == [g EXCEPT !.registers.pc = U16(r.pc + 1)]
        g2 == [g EXCEPT !.registers.pc = U16(r.pc + 2)]
        k8 == (opcode \div 8) % 8
        cc == (opcode \div 8) % 4
        jr == [g1 EXCEPT !.registers.pc = U16(@ + SignExt(n))]
        inc == inc8(r, get_reg8(g, bus, k8))
        dec == dec8(r, get_reg8(g, bus, k8))
        pop == pop_word(g, bus)
    IN  CASE opcode = \h00 -> Cyc(g, 4)
          [] opcode = \h01 -> Cyc([g2 EXCEPT !.registers = set_bc(@, nn)], 12)
          [] opcode = \h11 -> Cyc([g2 EXCEPT !.registers = set_de(@, nn)], 12)
          [] opcode = \h21 -> Cyc([g2 EXCEPT !.registers = set_hl(@, nn)], 12)
          [] opcode = \h31 -> Cyc([g2 EXCEPT !.registers.sp = nn], 12)
          [] opcode = \h02 -> Cyc(Store(g, bc(r), r.a), 8)
          [] opcode = \h12 -> Cyc(Store(g, de(r), r.a), 8)
          [] opcode = \h0A -> Cyc([g EXCEPT !.registers.a = bus[bc(r)]], 8)
          [] opcode = \h1A -> Cyc([g EXCEPT !.registers.a = bus[de(r)]], 8)
          [] opcode = \h03 -> Cyc([g EXCEPT !.registers = set_bc(@, U16(bc(r) + 1))], 8)
          [] opcode = \h13 -> Cyc([g EXCEPT !.registers = set_de(@, U16(de(r) + 1))], 8)
          [] opcode = \h23 -> Cyc([g EXCEPT !.registers = set_hl(@, U16(hl(r) + 1))], 8)
          [] opcode = \h33 -> Cyc([g EXCEPT !.registers.sp = U16(@ + 1)], 8)
          [] opcode = \h0B -> Cyc([g EXCEPT !.registers = set_bc(@, U16(bc(r) - 1))], 8)
          [] opcode = \h1B -> Cyc([g EXCEPT !.registers = set_de(@, U16(de(r) - 1))], 8)
          [] opcode = \h2B -> Cyc([g EXCEPT !.registers = set_hl(@, U16(hl(r) - 1))], 8)
          [] opcode = \h3B -> Cyc([g EXCEPT !.registers.sp = U16(@ - 1)], 8)
          [] opcode < \h40 /\ opcode % 8 = 4 ->
                Cyc(set_reg8([g EXCEPT !.registers = inc.regs], k8, inc.result),
                    IF k8 = 6 THEN 12 ELSE 4)
          [] opcode < \h40 /\ opcode % 8 = 5 ->
                Cyc(set_reg8([g EXCEPT !.registers = dec.regs], k8, dec.result),
                    IF k8 = 6 THEN 12 ELSE 4)
          [] opcode < \h40 /\ opcode % 8 = 6 ->
                Cyc(set_reg8(g1, k8, n), IF k8 = 6 THEN 12 ELSE 8)
          [] opcode = \h07 -> Cyc([g EXCEPT !.registers = rlca(@)], 4)
          [] opcode = \h0F -> Cyc([g EXCEPT !.registers = rrca(@)], 4)
          [] opcode = \h17 -> Cyc([g EXCEPT !.registers = rla(@)], 4)
          [] opcode = \h1F -> Cyc([g EXCEPT !.registers = rra(@)], 4)
          [] opcode = \h27 -> Cyc([g EXCEPT !.registers = daa(@)], 4)
          [] opcode = \h09 -> Cyc([g EXCEPT !.registers = add_hl(@, bc(r))], 8)
          [] opcode = \h19 -> Cyc([g EXCEPT !.registers = add_hl(@, de(r))], 8)
          [] opcode = \h29 -> Cyc([g EXCEPT !.registers = add_hl(@, hl(r))], 8)
          [] opcode = \h39 -> Cyc([g EXCEPT !.registers = add_hl(@, r.sp)], 8)
          [] opcode = \hCB -> execute_cb_opcode(g1, bus, n)
          [] opcode = \hE8 ->
                Cyc([g1 EXCEPT !.registers = [sp_plus(r, n).regs EXCEPT
                                                !.sp = sp_plus(r, n).result,
                                                !.pc = g1.registers.pc]], 16)
          [] opcode = \hF8 ->
                Cyc([g1 EXCEPT !.registers = [set_hl(sp_plus(r, n).regs, sp_plus(r, n).result)
                                                EXCEPT !.pc = g1.registers.pc]], 12)
          [] opcode = \h08 ->
                Cyc(Store(Store(g2, nn, r.sp % 256), U16(nn + 1), r.sp \div 256), 20)
          [] opcode = \h10 -> Cyc(g1, 4)
          [] opcode = \h18 -> Cyc(jr, 12)
          [] opcode \in {\h20, \h28, \h30, \h38} ->
                IF Taken(r, cc) THEN Cyc(jr, 12) ELSE Cyc(g1, 8)
          [] opcode = \h22 ->
                Cyc([Store(g, hl(r), r.a) EXCEPT
                       !.registers = set_hl(@, U16(hl(r) + 1))], 8)
          [] opcode = \h32 ->
                Cyc([Store(g, hl(r), r.a) EXCEPT
                       !.registers = set_hl(@, U16(hl(r) - 1))], 8)
          [] opcode = \h2A ->
                Cyc([g EXCEPT !.registers =
                        set_hl([@ EXCEPT !.a = bus[hl(r)]], U16(hl(r) + 1))], 8)
          [] opcode = \h3A ->
                Cyc([g EXCEPT !.registers =
                        set_hl([@ EXCEPT !.a = bus[hl(r)]], U16(hl(r) - 1))], 8)
          [] opcode = \h2F ->
                Cyc([g EXCEPT !.registers =
                        set_flag_h(set_flag_n([@ EXCEPT !.a = BitNot(r.a)], TRUE), TRUE)], 4)
          [] opcode = \h37 ->
                Cyc([g EXCEPT !.registers =
                        set_flag_c(set_flag_h(set_flag_n(@, FALSE), FALSE), TRUE)], 4)
          [] opcode = \h3F ->
                Cyc([g EXCEPT !.registers =
                        set_flag_c(set_flag_h(set_flag_n(@, FALSE), FALSE), ~flag_c(r))], 4)
          [] opcode = \h76 -> Cyc([g EXCEPT !.halted = TRUE], 4)
          [] opcode >= \h40 /\ opcode <= \h7F /\ opcode # \h76 -> ld_rr(g, bus, opcode)
          [] opcode >= \h80 /\ opcode <= \hBF -> alu_op(g, bus, opcode)
          \* execute_extended_opcode
          [] opcode \in {\hC0, \hC8, \hD0, \hD8} ->
                IF Taken(r, cc)
                THEN Cyc([pop.g EXCEPT !.registers.pc = pop.val], 20)
                ELSE Cyc(g, 8)
          [] opcode = \hC1 -> Cyc([pop.g EXCEPT !.registers = set_bc(@, pop.val)], 12)
          [] opcode = \hD1 -> Cyc([pop.g EXCEPT !.registers = set_de(@, pop.val)], 12)
          [] opcode = \hE1 -> Cyc([pop.g EXCEPT !.registers = set_hl(@, pop.val)], 12)
          [] opcode = \hF1 -> Cyc([pop.g EXCEPT !.registers = set_af(@, pop.val)], 12)
          [] opcode \in {\hC2, \hCA, \hD2, \hDA} ->
                IF Taken(r, cc)
                THEN Cyc([g2 EXCEPT !.registers.pc = nn], 16)
                ELSE Cyc(g2, 12)
          [] opcode = \hC3 -> Cyc([g2 EXCEPT !.registers.pc = nn], 16)
          [] opcode \in {\hC4, \hCC, \hD4, \hDC} ->
                IF Taken(r, cc)
                THEN Cyc([push_word(g2, g2.registers.pc) EXCEPT !.registers.pc = nn], 24)
                ELSE Cyc(g2, 12)
          [] opcode = \hC5 -> Cyc(push_word(g, bc(r)), 16)
          [] opcode = \hD5 -> Cyc(push_word(g, de(r)), 16)
          [] opcode = \hE5 -> Cyc(push_word(g, hl(r)), 16)
          [] opcode = \hF5 -> Cyc(push_word(g, af(r)), 16)
          [] opcode >= \hC0 /\ opcode % 8 = 6 ->
                Cyc([g1 EXCEPT !.registers = alu(@, k8, n)], 8)
          [] opcode >= \hC0 /\ opcode % 8 = 7 -> rst(g, opcode - \hC7)
          [] opcode = \hC9 -> Cyc([pop.g EXCEPT !.registers.pc = pop.val], 16)
          [] opcode = \hD9 ->
                Cyc([pop.g EXCEPT !.registers.pc = pop.val, !.ime = TRUE], 16)
          [] opcode = \hCD ->
                Cyc([push_word(g2, g2.registers.pc) EXCEPT !.registers.pc = nn], 24)
          [] opcode = \hE0 -> Cyc(Store(g1, \hFF00 + n, r.a), 12)
          [] opcode = \hF0 ->
                Cyc([g1 EXCEPT !.registers.a = bus[\hFF00 + n]], 12)
          [] opcode = \hE2 -> Cyc(Store(g, \hFF00 + r.c, r.a), 8)
          [] opcode = \hF2 ->
                Cyc([g EXCEPT !.registers.a = bus[\hFF00 + r.c]], 8)
          [] opcode = \hE9 -> Cyc([g EXCEPT !.registers.pc = hl(r)], 4)
          [] opcode = \hEA -> Cyc(Store(g2, nn, r.a), 16)
          [] opcode = \hFA -> Cyc([g2 EXCEPT !.registers.a = bus[nn]], 16)
          [] opcode = \hF3 -> Cyc([g EXCEPT !.ime = FALSE], 4)
          [] opcode = \hF9 -> Cyc([g EXCEPT !.registers.sp = hl(r)], 8)
          [] opcode = \hFB -> Cyc([g EXCEPT !.ime_scheduled = TRUE], 4)
          [] opcode \in UndefinedOpcodes -> Cyc(g, 4)

\* check_interrupts scanning from bit 4 down: the highest index wins.
check_interrupts_highest_first(g, bus) ==
    LET interrupts == BitAnd(bus[\hFFFF], bus[\hFF0F])
        set == {i \in 0..4 : Bit(interrupts, i) # 0}
    IN  IF set = {} THEN None
        ELSE Some(CHOOSE i \in set : \A j \in set : i >= j)

\* Some(i) for the lowest i in 0..4 with IE & IF bit i set, else None.
check_interrupts(g, bus) ==
    LET ie == bus[\hFFFF]
        if_ == bus[\hFF0F]
        interrupts == BitAnd(ie, if_)
        set == {i \in 0..4 : Bit(interrupts, i) # 0}
    IN  IF interrupts = 0 \/ set = {} THEN None
        ELSE Some(CHOOSE i \in set : \A j \in set : i <= j)

\* let handlers = [0x40, 0x48, 0x50, 0x58, 0x60];
handlers == <<\h40, \h48, \h50, \h58, \h60>>

\* handle_interrupt whose guard for a stack below 0x8100 returns without
\* clearing IF and IME.
handle_interrupt_guard_keeps_request(g, bus, interrupt) ==
    IF g.registers.sp < \h8100
    THEN g
    ELSE Cyc([push_word([Store(g, \hFF0F, ClearBit(bus[\hFF0F], interrupt))
                           EXCEPT !.ime = FALSE, !.halted = FALSE],
                        g.registers.pc)
                EXCEPT !.registers.pc = handlers[interrupt + 1]], 20)

\* The push and the jump whatever the stack pointer: no guard.
dispatch_unguarded(g, interrupt) ==
    Cyc([push_word(g, g.registers.pc)
           EXCEPT !.registers.pc = handlers[interrupt + 1]], 20)

\* The part of handle_interrupt after last_interrupt is set: the guard for
\* a stack below 0x8100, or the push and the jump.
dispatch(g, interrupt) ==
    IF g.registers.sp < \h8100
    THEN Store(g, \hFF0F, 0)
    ELSE Cyc([push_word(g, g.registers.pc)
                EXCEPT !.registers.pc = handlers[interrupt + 1]], 20)

handle_interrupt(g, bus, interrupt) ==
    dispatch([Store(g, \hFF0F, ClearBit(bus[\hFF0F], interrupt))
                EXCEPT !.ime = FALSE, !.halted = FALSE,
                       !.last_interrupt =
                           Some(<<interrupt, g.registers.pc,
                                  bus[\hFFFF], bus[\hFF0F]>>)],
             interrupt)

\* fetch_byte followed by execute_opcode
fetch_execute(g, bus) ==
    execute_opcode([g EXCEPT !.registers.pc = U16(@ + 1)], bus,
                   bus[g.registers.pc])

\* The commit that sets IME and leaves the schedule standing.
commit_ime_keeps_schedule(g) ==
    IF g.ime_scheduled THEN [g EXCEPT !.ime = TRUE] ELSE g

\* if self.ime_scheduled { self.ime = true; self.ime_scheduled = false; }
commit_ime(g) ==
    IF g.ime_scheduled
    THEN [g EXCEPT !.ime = TRUE, !.ime_scheduled = FALSE]
    ELSE g

\* The step of a CPU that is not halted, after the scheduled IME is
\* committed: the dispatch when IME is on and an interrupt is pending,
\* else fetch and execute.
service_or_execute(g, bus, pending) ==
    IF g.ime /\ pending # None
    THEN [g |-> handle_interrupt(g, bus, pending[1]), path |-> "interrupt"]
    ELSE [g |-> fetch_execute(g, bus), path |-> "opcode"]

\* The step of a halted CPU.
\* The halted path leaving the halt only when IME is on.
halted_step_ime_gated(g, pending) ==
    [g |-> IF pending # None /\ g.ime THEN [g EXCEPT !.halted = FALSE] ELSE g,
     path |-> "halted"]

halted_step(g, pending) ==
    [g |-> IF pending # None THEN [g EXCEPT !.halted = FALSE] ELSE g,
     path |-> "halted"]

RECURSIVE write_bytes(_, _)
\* The write_byte calls of `stores`, in order.
write_bytes(m, stores) ==
    IF stores = <<>> THEN m
    ELSE write_bytes(write_byte(m, Head(stores)[1], Head(stores)[2]), Tail(stores))

\* The core record as the step begins: no store made yet.
OnBus(g) ==
    [mmu |-> g.mmu, registers |-> g.registers, cycles |-> g.cycles,
     halted |-> g.halted, ime |-> g.ime, ime_scheduled |-> g.ime_scheduled,
     last_interrupt |-> g.last_interrupt, stores |-> <<>>]

\* The core record as the step ends, the halted path returning the
\* accumulator's advance like the others.
SteppedByAdvance(s, cycles_before) ==
    [g |-> [mmu |-> write_bytes(s.g.mmu, s.g.stores),
            registers |-> s.g.registers, cycles |-> s.g.cycles,
            halted |-> s.g.halted, ime |-> s.g.ime,
            ime_scheduled |-> s.g.ime_scheduled,
            last_interrupt |-> s.g.last_interrupt],
     cycles |-> Int32(Sub32(s.g.cycles, cycles_before)),
     path |-> s.path]

\* The core record as the step ends, and what the step returns: 4 on the
\* halted path, self.cycles - cycles_before on the others.
Stepped(s, cycles_before) ==
    [g |-> [mmu |-> write_bytes(s.g.mmu, s.g.stores),
            registers |-> s.g.registers, cycles |-> s.g.cycles,
            halted |-> s.g.halted, ime |-> s.g.ime,
            ime_scheduled |-> s.g.ime_scheduled,
            last_interrupt |-> s.g.last_interrupt],
     cycles |-> IF s.path = "halted" THEN 4
                ELSE Int32(Sub32(s.g.cycles, cycles_before)),
     path |-> s.path]

\* step_cpu on the record of OnBus, reading through bus.
cpu_step(g, bus) ==
    IF g.halted
    THEN halted_step(g, check_interrupts(g, bus))
    ELSE service_or_execute(commit_ime(g), bus, check_interrupts(commit_ime(g), bus))

\* step_cpu: the new core state, the cycle count returned, and which path
\* was taken ("halted", "interrupt" or "opcode").
step_cpu(g) ==
    Stepped(cpu_step(OnBus(g), [addr \in 0..65535 |-> read_byte(g.mmu, addr)]),
            g.cycles)

---------------------------------------------------------------------------
(* Cartridge images.  An image is [len, bytes]: its length and its         *)
(* non-zero bytes.  Every image is 32 KiB with its code at the entry       *)
(* point 0x0100.                                                           *)

\* The image holding `code` from address `at` on.
At(at, code) ==
    [a \in {at + i - 1 : i \in {j \in 1..Len(code) : code[j] # 0}} |-> code[a - at + 1]]

Image(bytes) == [len |-> \h8000, bytes |-> bytes]

\* HALT with no interrupt enabled: halted for ever.
RomHalt == Image(At(\h0100, <<\h76>>))

\* Undefined opcodes only:  0xDD 0xFD 0xEC, JP 0x0100.
RomUndefined == Image(At(\h0100, <<\hDD, \hFD, \hEC, \hC3, \h00, \h01>>))

\* The interrupt-storm guard over and over: SP below 0x8100, every
\* interrupt enabled, then  IF := 0x1F; EI; JR back.
RomStorm ==
    Image(At(\h0100, <<\h31, \h00, \h80,        \* LD SP,0x8000
                       \h3E, \h1F,              \* LD A,0x1F
                       \hE0, \hFF,              \* LDH (0xFF),A   IE
                       \hE0, \h0F,              \* LDH (0x0F),A   IF
                       \hFB,                    \* EI
                       \h18, \hFB>>))           \* JR -5

\* V-blank interrupt handler RETI at 0x0040; main: IE := 1; EI; HALT; JR.
RomVBlankIrq ==
    Image(At(\h0040, <<\hD9>>) @@
          At(\h0100, <<\h3E, \h01,              \* LD A,1
                       \hE0, \hFF,              \* LDH (0xFF),A   IE
                       \hFB,                    \* EI
                       \h76,                    \* HALT
                       \h18, \hFD>>))           \* JR -3

\* The LCD switched off for 4572 cycles of the first frame, so that the
\* second frame starts 4 cycles before the end of line 143, and then a loop
\* of a 20-cycle and a 12-cycle instruction.
RomLcdPhase ==
    Image(At(\h0100, <<\hAF,                    \* XOR A
                       \hE0, \h40,              \* LDH (0x40),A   LCD off
                       \h06, 126,               \* LD B,126
                       \h05,                    \* DEC B
                       \h08, \h00, \hC0,        \* LD (0xC000),SP
                       \h20, \hFA,              \* JR NZ,-6
                       \h01, \h00, \h00,        \* LD BC,0
                       \h3E, \h91,              \* LD A,0x91
                       \hE0, \h40,              \* LDH (0x40),A   LCD on
                       \h01, \h00, \h00,        \* LD BC,0
                       \h08, \h00, \hC0,        \* LD (0xC000),SP
                       \h18, \hFB>>))           \* JR -5

---------------------------------------------------------------------------
(* The engine (struct GameBoy) and its host.                               *)

VARIABLES
    running, mmu, registers, timer, input, ppu, apu, cycles,
    halted, ime, ime_scheduled, last_interrupt,   \* the fields of GameBoy
    pc,            \* where the host is: "idle", or inside run_frame at the
                   \* loop's "test" or in its "body"
    frame_cycles,  \* run_frame's local
    frame_ready,   \* run_frame's local
    call,          \* what the last host call was, and what it observed
    last,          \* what the last CPU step of run_frame observed
    frames,        \* run_frame calls that ran since the last reset
    steps          \* loop iterations of the current run_frame call (capped)

engine == <<running, mmu, registers, timer, input, ppu, apu, cycles,
            halted, ime, ime_scheduled, last_interrupt>>
vars == <<running, mmu, registers, timer, input, ppu, apu, cycles,
          halted, ime, ime_scheduled, last_interrupt,
          pc, frame_cycles, frame_ready, call, last, frames, steps>>

\* let target_cycles = 70224;
target_cycles == 70224

\* The fields step_cpu works on.
Core ==
    [mmu |-> mmu, registers |-> registers, cycles |-> cycles, halted |-> halted,
     ime |-> ime, ime_scheduled |-> ime_scheduled, last_interrupt |-> last_interrupt]

NoCall(op) ==
    [op |-> op, ret |-> FALSE, ran |-> FALSE, entry_cycles |-> Zero32, halted_steps |-> 0,
     vblank_reqs |-> 0, entered_144 |-> 0, lcd_on |-> TRUE, arg |-> <<>>]

NoStep ==
    [path |-> "none", cycles |-> 0, halted |-> FALSE, ime |-> FALSE,
     ime_scheduled |-> FALSE, ie |-> 0, if_ |-> 0, sp |-> 0, pc |-> 0, if_after |-> 0, pc_after |-> 0,
     sp_after |-> 0, rendered |-> <<>>, panic |-> FALSE, reqs |-> <<>>]

\* GameBoy::new()
GBNew ==
    [running |-> FALSE, mmu |-> MMUNew, registers |-> RegistersNew,
     timer |-> TimerNew, input |-> InputNew, ppu |-> PPUNew, apu |-> APUNew,
     cycles |-> Zero32, halted |-> FALSE, ime |-> FALSE,
     ime_scheduled |-> FALSE, last_interrupt |-> None]

\* The engine is r; the host is idle and its last call was c.
StartsAs(r, c) ==
    /\ running = r.running
    /\ mmu = r.mmu
    /\ registers = r.registers
    /\ timer = r.timer
    /\ input = r.input
    /\ ppu = r.ppu
    /\ apu = r.apu
    /\ cycles = r.cycles
    /\ halted = r.halted
    /\ ime = r.ime
    /\ ime_scheduled = r.ime_scheduled
    /\ last_interrupt = r.last_interrupt
    /\ pc = "idle"
    /\ frame_cycles = 0
    /\ frame_ready = FALSE
    /\ call = c
    /\ last = NoStep
    /\ frames = 0
    /\ steps = 0

Init == StartsAs(GBNew, NoCall("new"))

\* GameBoy::reset leaving the interrupt master enable as it finds it.
GBResetKeepsIme(m, p) ==
    LET c == PPUReset(MMUReset(m), p)
    IN  [running |-> FALSE, mmu |-> c.mmu, registers |-> RegistersNew,
         timer |-> TimerNew, input |-> InputNew, ppu |-> c.ppu, apu |-> APUNew,
         cycles |-> Zero32, halted |-> FALSE, ime |-> ime,
         ime_scheduled |-> FALSE, last_interrupt |-> None]

\* GameBoy::reset with the memory unit m (load_rom installs the image
\* first): the fields of GameBoy after it.
GBReset(m, p) ==
    LET c == PPUReset(MMUReset(m), p)
    IN  [running |-> FALSE, mmu |-> c.mmu, registers |-> RegistersNew,
         timer |-> TimerNew, input |-> InputNew, ppu |-> c.ppu, apu |-> APUNew,
         cycles |-> Zero32, halted |-> FALSE, ime |-> FALSE,
         ime_scheduled |-> FALSE, last_interrupt |-> None]

ResetFrom(m, op) ==
    /\ pc = "idle"
    /\ \E r \in {GBReset(m, ppu)} :
          /\ running' = r.running
          /\ mmu' = r.mmu
          /\ registers' = r.registers
          /\ timer' = r.timer
          /\ input' = r.input
          /\ ppu' = r.ppu
          /\ apu' = r.apu
          /\ cycles' = r.cycles
          /\ halted' = r.halted
          /\ ime' = r.ime
          /\ ime_scheduled' = r.ime_scheduled
          /\ last_interrupt' = r.last_interrupt
    /\ call' = [NoCall(op) EXCEPT !.entry_cycles = cycles]
    /\ last' = NoStep
    /\ frames' = 0
    /\ steps' = 0
    /\ UNCHANGED <<pc, frame_cycles, frame_ready>>

LoadRom(rom) == ResetFrom(MMULoadRom(mmu, rom), "load_rom")

Reset == ResetFrom(mmu, "reset")

Start ==
    /\ pc = "idle"
    /\ running' = TRUE
    /\ call' = NoCall("start")
    /\ UNCHANGED <<mmu, registers, timer, input, ppu, apu, cycles, halted, ime,
                   ime_scheduled, last_interrupt, pc, frame_cycles, frame_ready,
                   last, frames, steps>>

Stop ==
    /\ pc = "idle"
    /\ running' = FALSE
    /\ call' = NoCall("stop")
    /\ UNCHANGED <<mmu, registers, timer, input, ppu, apu, cycles, halted, ime,
                   ime_scheduled, last_interrupt, pc, frame_cycles, frame_ready,
                   last, frames, steps>>

\* How many run_frame calls run after a reset, and how many loop iterations
\* the step-level specification follows.
MaxFrames == 2
MaxSteps == 8

\* run_frame entering its loop whatever the run gate says.
RunFrameUngated ==
    /\ pc = "idle"
    /\ frames < MaxFrames
    /\ pc' = "test"
    /\ frame_cycles' = 0
    /\ frame_ready' = FALSE
    /\ call' = [NoCall("run_frame") EXCEPT
                  !.ran = TRUE,
                  !.entry_cycles = cycles,
                  !.lcd_on = BitAnd(mmu.io[\h40], \h80) # 0]
    /\ frames' = frames + 1
    /\ steps' = 0
    /\ UNCHANGED <<running, mmu, registers, timer, input, ppu, apu, cycles,
                   halted, ime, ime_scheduled, last_interrupt, last>>

\* run_frame, entry: the run gate, then the locals.
RunFrame ==
    /\ pc = "idle"
    /\ running => frames < MaxFrames
    /\ IF ~running
       THEN /\ call' = NoCall("run_frame")
            /\ UNCHANGED <<running, mmu, registers, timer, input, ppu, apu, cycles,
                           halted, ime, ime_scheduled, last_interrupt,
                           pc, frame_cycles, frame_ready, last, frames, steps>>
       ELSE /\ pc' = "test"
            /\ frame_cycles' = 0
            /\ frame_ready' = FALSE
            /\ call' = [NoCall("run_frame") EXCEPT
                                  !.ran = TRUE,
                          !.entry_cycles = cycles,
                          !.lcd_on = BitAnd(mmu.io[\h40], \h80) # 0]
            /\ frames' = frames + 1
            /\ steps' = 0
            /\ UNCHANGED <<running, mmu, registers, timer, input, ppu, apu, cycles,
                           halted, ime, ime_scheduled, last_interrupt, last>>

\* run_frame, the loop condition holds: while frame_cycles < target_cycles
LoopTest ==
    /\ pc = "test"
    /\ frame_cycles < target_cycles
    /\ pc' = "body"
    /\ UNCHANGED <<running, mmu, registers, timer, input, ppu, apu, cycles,
                   halted, ime, ime_scheduled, last_interrupt,
                   frame_cycles, frame_ready, call, last, frames, steps>>

\* run_frame, the body of the while loop: step_cpu, then the timer, the APU
\* and the PPU with the cycles it reported.
Step ==
    /\ pc = "body"
    /\ \E s \in {step_cpu(Core)} :
       \E t \in {TimerStep(timer, s.cycles, s.g.mmu.io)} :
       \E m1 \in {[s.g.mmu EXCEPT !.io = t.io]} :
       \E p \in {PPUStep(m1, ppu, s.cycles)} :
       LET cpu_cycles == s.cycles
       IN  /\ registers' = s.g.registers
           /\ cycles' = s.g.cycles
           /\ halted' = s.g.halted
           /\ ime' = s.g.ime
           /\ ime_scheduled' = s.g.ime_scheduled
           /\ last_interrupt' = s.g.last_interrupt
           /\ frame_cycles' = frame_cycles + cpu_cycles
           /\ timer' = t.timer
           /\ apu' = APUStep(apu, cpu_cycles)
           /\ mmu' = p.c.mmu
           /\ ppu' = p.c.ppu
           /\ frame_ready' = (frame_ready \/ p.ret)
           /\ call' = [call EXCEPT
                         !.halted_steps = @ + (IF s.path = "halted" THEN 1 ELSE 0),
                         !.vblank_reqs =
                             @ + Cardinality({i \in DOMAIN p.c.reqs : p.c.reqs[i] = 0}),
                         !.entered_144 =
                             @ + (IF get_ly(m1) = 143 /\ get_ly(p.c.mmu) = 144
                                  THEN 1 ELSE 0),
                         !.lcd_on = @ /\ BitAnd(m1.io[\h40], \h80) # 0]
           /\ last' = [path |-> s.path, cycles |-> cpu_cycles,
                       halted |-> halted, ime |-> ime,
                       ime_scheduled |-> ime_scheduled,
                       ie |-> mmu.ie, if_ |-> mmu.io[\h0F],
                       sp |-> registers.sp, pc |-> registers.pc,
                       if_after |-> s.g.mmu.io[\h0F],
                       pc_after |-> s.g.registers.pc,
                       sp_after |-> s.g.registers.sp,
                       rendered |-> p.c.rendered, panic |-> p.c.panic,
                       reqs |-> p.c.reqs]
    /\ steps' = IF steps < MaxSteps THEN steps + 1 ELSE steps
    /\ pc' = "test"
    /\ UNCHANGED <<running, input, frames>>

\* run_frame, exit: the loop condition fails and frame_ready is returned.
Return ==
    /\ pc = "test"
    /\ frame_cycles >= target_cycles
    /\ pc' = "idle"
    /\ call' = [call EXCEPT !.ret = frame_ready]
    /\ UNCHANGED <<running, mmu, registers, timer, input, ppu, apu, cycles,
                   halted, ime, ime_scheduled, last_interrupt,
                   frame_cycles, frame_ready, last, frames, steps>>

Roms == {RomHalt, RomUndefined, RomStorm, RomVBlankIrq, RomLcdPhase}

Next ==
    \/ \E rom \in Roms : LoadRom(rom)
    \/ Reset
    \/ Start
    \/ Stop
    \/ RunFrame
    \/ LoopTest
    \/ Step
    \/ Return

Spec == Init /\ [][Next]_vars

TypeOK ==
    /\ running \in BOOLEAN
    /\ cycles \in (0..(Limb - 1)) \X (0..(Limb - 1))
    /\ pc \in {"idle", "test", "body"}

\* The loop body runs to its end: control leaves it for the loop's test.
BodyEnds == pc = "body" /\ pc' = "test"

\* The cartridges of halting for ever, of undefined opcodes and of the storm
\* guard, after load_rom and start().
LoopRoms == {RomHalt, RomUndefined, RomStorm}

InitLoop ==
    \E rom \in LoopRoms :
        StartsAs([GBReset(MMULoadRom(MMUNew, rom), PPUNew) EXCEPT !.running = TRUE],
                 NoCall("start"))

NextLoop == RunFrame \/ LoopTest \/ Step \/ Return

\* The scheduling of run_frame: the test is made, the body runs to its end,
\* and the call returns when the test fails.  The host may stop calling
\* run_frame; a call that has begun may not stop.
FairSpec ==
    InitLoop /\ [][NextLoop]_vars
        /\ WF_vars(LoopTest) /\ WF_pc(BodyEnds) /\ WF_vars(Return)

\* A run_frame call that found the run gate on has returned.
Done == call.op = "run_frame" /\ call.ran /\ pc = "idle"

\* The cycle accumulator's advance over the call.
Advance == Int32(Sub32(cycles, call.entry_cycles))

\* C1: a run_frame call made while running increases the cycle
\* accumulator by exactly 70224, whatever the starting state (a halted CPU
\* included) and whatever opcodes ran.
C1_AdvancesBy70224 == Done => Advance = target_cycles

\* C2: over a run_frame call made while running with the LCD enabled all
\* through, the PPU requests the V-blank interrupt exactly once, and the call
\* returns true exactly when LY went from 143 to 144 during it.
C2_VBlankOnce ==
    (Done /\ call.lcd_on) =>
        /\ call.vblank_reqs = 1
        /\ call.ret = (call.entered_144 > 0)

\* C3: every run_frame call that entered its loop returns, whatever the
\* cartridge does: halted for ever, undefined opcodes, the storm guard.
C3_Terminates == (pc # "idle") ~> (pc = "idle")

\* A call has returned after a frame in which every step found the CPU halted.
C3_Witness == Done /\ call.halted_steps > 0 /\ call.halted_steps * 4 = frame_cycles

\* C4: run_frame called with the run gate off returns false and changes
\* no field of the engine: registers, cycles, memory, I/O, timer, PPU,
\* framebuffer.
C4_GateOff ==
    [][(pc = "idle" /\ ~running /\ call'.op = "run_frame") =>
          /\ call'.ret = FALSE
          /\ pc' = "idle"
          /\ engine' = engine]_vars

\* run_frame was refused after stop(), following a frame that ran.
C4_Witness ==
    /\ call.op = "run_frame" /\ ~call.ran /\ call.ret = FALSE
    /\ ~running /\ frames > 0 /\ Int32(cycles) > 0

---------------------------------------------------------------------------
(* The first steps of a frame, over cartridges that set up an interrupt    *)
(* request with IME already on:  LD SP,sp; IF := if; EI; IE := ie; NOP...   *)

IrqRom(ie, if_, sp) ==
    Image(At(\h0100, <<\h31, sp % 256, sp \div 256,   \* LD SP,sp
                       \h3E, if_,                     \* LD A,if
                       \hE0, \h0F,                    \* LDH (0x0F),A   IF
                       \hFB,                          \* EI
                       \h3E, ie,                      \* LD A,ie
                       \hE0, \hFF>>))                 \* LDH (0xFF),A   IE

IrqMasks == (0..31) \cup {\h20, \hE1, \hFF}
StackTops == {\hFFFE, \h8100, \h80FF, \hFF11, \hFF10}

\* After load_rom(IrqRom(..)) and start().
InitStep ==
    \E ie \in IrqMasks, if_ \in IrqMasks, sp \in StackTops :
        StartsAs([GBReset(MMULoadRom(MMUNew, IrqRom(ie, if_, sp)), PPUNew)
                     EXCEPT !.running = TRUE],
                 NoCall("start"))

BoundedStep == steps < MaxSteps /\ Step

NextStep == RunFrame \/ LoopTest \/ BoundedStep

SpecStep == InitStep /\ [][NextStep]_vars

\* The requests that were both raised and enabled when the last step began,
\* and the lowest index among them.
Pending == BitAnd(BitAnd(last.ie, last.if_), \h1F)
Lowest == CHOOSE i \in 0..4 : Bit(Pending, i) # 0 /\ \A j \in 0..(i - 1) : Bit(Pending, j) = 0

\* The last step dispatched the lowest pending index and cleared that bit of
\* IF and no other.
DispatchedLowest ==
    /\ last.path = "interrupt"
    /\ last.pc_after = \h40 + 8 * Lowest
    /\ last.if_after = last.if_ - 2 ^ Lowest

\* C5 as stated: with IME on and requests raised and enabled, the step
\* dispatches the lowest index (vector 0x40 + 8*index) and clears only that
\* bit of IF.
C5_LowestFirst == (last.ime /\ Pending # 0) => DispatchedLowest

\* C5 amended: the same of a step that begins with the CPU not halted and
\* the stack pointer at 0x8100 or above and not at 0xFF10 or 0xFF11, where
\* the pushed return address would land on IF.
C5_LowestFirstStackClear ==
    (/\ last.ime /\ Pending # 0
     /\ ~last.halted
     /\ last.sp >= \h8100
     /\ last.sp \notin {\hFF10, \hFF11}) => DispatchedLowest

\* Timer and serial both pending at a step with IME on: the timer's vector.
C5_Witness ==
    /\ last.ime /\ Pending = 12 /\ last.sp = \hFFFE /\ last.if_ % 32 = 15
    /\ last.path = "interrupt" /\ last.pc_after = \h50

---------------------------------------------------------------------------
(* The 8-bit ALU on every accumulator, operand and carry.                  *)

AluFlags == {\h00, \hF0}

\* A register file holding a and f, and an operand byte at hand.
InitAlu ==
    \E a \in Byte, value \in Byte, f \in AluFlags :
        StartsAs([GBNew EXCEPT !.registers.a = a, !.registers.f = f],
                 [NoCall("operand") EXCEPT !.arg = [a |-> a, f |-> f, value |-> value]])

OthersUnchanged ==
    UNCHANGED <<running, mmu, timer, input, ppu, apu, cycles, halted, ime,
                ime_scheduled, last_interrupt, pc, frame_cycles, frame_ready,
                last, frames, steps>>

AluNames == <<"add8", "adc8", "sub8", "sbc8", "and8", "xor8", "or8", "cp8">>

\* ADD, ADC, SUB, SBC and CP in the order of alu_op's operation field.
Arithmetic == {0, 1, 2, 3, 7}

\* ADD/ADC/SUB/SBC/CP A,value
AluOp(op) ==
    /\ call.op = "operand"
    /\ registers' = alu(registers, op, call.arg.value)
    /\ call' = [call EXCEPT !.op = AluNames[op + 1]]
    /\ OthersUnchanged

\* INC A
IncA ==
    /\ call.op = "operand"
    /\ registers' = [inc8(registers, registers.a).regs
                        EXCEPT !.a = inc8(registers, registers.a).result]
    /\ call' = [call EXCEPT !.op = "inc8"]
    /\ OthersUnchanged

\* DEC A
DecA ==
    /\ call.op = "operand"
    /\ registers' = [dec8(registers, registers.a).regs
                        EXCEPT !.a = dec8(registers, registers.a).result]
    /\ call' = [call EXCEPT !.op = "dec8"]
    /\ OthersUnchanged

NextAlu == (\E op \in Arithmetic : AluOp(op)) \/ IncA \/ DecA

SpecAlu == InitAlu /\ [][NextAlu]_vars

\* The reference: a ripple-carry adder and a ripple-borrow subtractor over
\* the low n bits of x and y, least significant bit first.  Each gives the
\* n-bit result and the carry out of (the borrow into) bit n - 1.
RECURSIVE RippleAdd(_, _, _, _)
RippleAdd(x, y, cin, n) ==
    IF n = 0 THEN [bits |-> 0, out |-> cin]
    ELSE LET t == (x % 2) + (y % 2) + cin
             rest == RippleAdd(x \div 2, y \div 2, IF t >= 2 THEN 1 ELSE 0, n - 1)
         IN  [bits |-> (t % 2) + 2 * rest.bits, out |-> rest.out]

RECURSIVE RippleSub(_, _, _, _)
RippleSub(x, y, bin, n) ==
    IF n = 0 THEN [bits |-> 0, out |-> bin]
    ELSE LET t == (x % 2) - (y % 2) - bin
             rest == RippleSub(x \div 2, y \div 2, IF t < 0 THEN 1 ELSE 0, n - 1)
         IN  [bits |-> (t % 2) + 2 * rest.bits, out |-> rest.out]

\* The F register with flags z, n, h, c (each 0 or 1).
Flags(z, n, h, c) == z * 128 + n * 64 + h * 32 + c * 16

IsZero(x) == IF x = 0 THEN 1 ELSE 0

\* The reference result and flags of x + y + cin and of x - y - bin.
RefAdd(x, y, cin) ==
    LET full == RippleAdd(x, y, cin, 8)
        half == RippleAdd(x, y, cin, 4)
    IN  [result |-> full.bits, f |-> Flags(IsZero(full.bits), 0, half.out, full.out)]

RefSub(x, y, bin) ==
    LET full == RippleSub(x, y, bin, 8)
        half == RippleSub(x, y, bin, 4)
    IN  [result |-> full.bits, f |-> Flags(IsZero(full.bits), 1, half.out, full.out)]

\* The carry flag of the operands at hand.
CarryIn == Bit(call.arg.f, 4)

\* f with its carry bit replaced by the incoming one.
KeepCarry(f) == f - Bit(f, 4) * 16 + CarryIn * 16

\* The accumulator and flags the reference gives for the operation done.
Expected ==
    LET a == call.arg.a
        v == call.arg.value
    IN  CASE call.op = "add8" -> RefAdd(a, v, 0)
          [] call.op = "adc8" -> RefAdd(a, v, CarryIn)
          [] call.op = "sub8" -> RefSub(a, v, 0)
          [] call.op = "sbc8" -> RefSub(a, v, CarryIn)
          [] call.op = "cp8"  -> [result |-> a, f |-> RefSub(a, v, 0).f]
          [] call.op = "inc8" -> [RefAdd(a, 1, 0) EXCEPT !.f = KeepCarry(@)]
          [] call.op = "dec8" -> [RefSub(a, 1, 0) EXCEPT !.f = KeepCarry(@)]

\* C6: for every accumulator, operand and incoming carry, ADD, ADC, SUB,
\* SBC, CP, INC and DEC leave the result and the Z, N, H, C flags of the
\* reference: Z iff the result is 0, N by polarity, H the carry out of (borrow
\* into) bit 3, C that of bit 7; CP keeps A; INC and DEC keep C.
C6_AluReference ==
    call.op \in {"add8", "adc8", "sub8", "sbc8", "cp8", "inc8", "dec8"} =>
        [result |-> registers.a, f |-> registers.f] = Expected

\* SBC A,0x0F with A = 0x10 and the carry set: the result is 0x00 with Z, N and H.
C6_Witness ==
    /\ call.op = "sbc8"
    /\ call.arg = [a |-> \h10, f |-> \hF0, value |-> \h0F]
    /\ registers.a = 0 /\ registers.f = \hE0

---------------------------------------------------------------------------
(* The register pairs on every 16-bit value.                               *)

\* The power-on register file and one with eight different bytes.
RegFiles ==
    {RegistersNew,
     [a |-> \h12, f |-> \hF0, b |-> \h34, c |-> \h56, d |-> \h78, e |-> \h9A,
      h |-> \hBC, l |-> \hDE, sp |-> \hC123, pc |-> \h4567]}

InitRegs == \E r \in RegFiles : StartsAs([GBNew EXCEPT !.registers = r], NoCall("registers"))

SetPair(name, r, v) ==
    /\ registers' = r
    /\ call' = [NoCall(name) EXCEPT !.arg = [v |-> v, before |-> registers]]
    /\ OthersUnchanged

SetAF == call.op = "registers" /\ \E v \in 0..65535 : SetPair("set_af", set_af(registers, v), v)
SetBC == call.op = "registers" /\ \E v \in 0..65535 : SetPair("set_bc", set_bc(registers, v), v)
SetDE == call.op = "registers" /\ \E v \in 0..65535 : SetPair("set_de", set_de(registers, v), v)
SetHL == call.op = "registers" /\ \E v \in 0..65535 : SetPair("set_hl", set_hl(registers, v), v)

NextRegs == SetAF \/ SetBC \/ SetDE \/ SetHL

SpecRegs == InitRegs /\ [][NextRegs]_vars

\* The register files that differ from r in the named registers at most.
OnlyChanged(r, names) ==
    \A k \in DOMAIN r : k \notin names => registers[k] = r[k]

\* C7: for every 16-bit v, set_bc(v) then bc() gives v, likewise de and hl;
\* set_af(v) then af() gives v with its low four bits cleared; and each
\* setter changes its own two registers only.
C7_PairRoundTrip ==
    LET v == call.arg.v
        before == call.arg.before
    IN  /\ call.op = "set_af" =>
               af(registers) = v - (v % 16) /\ OnlyChanged(before, {"a", "f"})
        /\ call.op = "set_bc" =>
               bc(registers) = v /\ OnlyChanged(before, {"b", "c"})
        /\ call.op = "set_de" =>
               de(registers) = v /\ OnlyChanged(before, {"d", "e"})
        /\ call.op = "set_hl" =>
               hl(registers) = v /\ OnlyChanged(before, {"h", "l"})

\* set_af(0xABCD) was applied: AF reads 0xABC0 and B still holds 0x34.
C7_Witness ==
    /\ call.op = "set_af" /\ call.arg.v = \hABCD
    /\ af(registers) = \hABC0 /\ registers.b = \h34

---------------------------------------------------------------------------
(* Writes to the cartridge control windows.                                *)

\* Four 16 KiB banks, each starting with its own marker byte; MBC1.
RomBanked ==
    [len |-> \h10000,
     bytes |-> (\h0000 :> \hA0) @@ (\h4000 :> \hA1) @@ (\h8000 :> \hA2) @@
               (\hC000 :> \hA3) @@ (\h0147 :> \h01)]

InitMbc ==
    StartsAs([GBReset(MMULoadRom(MMUNew, RomBanked), PPUNew) EXCEPT !.running = TRUE],
             NoCall("start"))

\* The first and last address of each control window.
ControlAddrs ==
    {\h0000, \h1FFF, \h2000, \h3FFF, \h4000, \h5FFF, \h6000, \h7FFF}

\* A CPU store to a control window.
ControlWrite(addr, val) ==
    /\ mmu' = write_byte(mmu, addr, val)
    /\ call' = [NoCall("write_byte") EXCEPT !.arg = [addr |-> addr, val |-> val]]
    /\ UNCHANGED <<running, registers, timer, input, ppu, apu, cycles, halted, ime,
                   ime_scheduled, last_interrupt, pc, frame_cycles, frame_ready,
                   last, frames, steps>>

\* Every value whose low five bits are zero, and some whose are not.
ControlVals ==
    {\h00, \h20, \h40, \h60, \h80, \hA0, \hC0, \hE0,
     \h01, \h02, \h03, \h0A, \h1F, \hFF}

NextMbc == \E addr \in ControlAddrs, val \in ControlVals : ControlWrite(addr, val)

SpecMbc == InitMbc /\ [][NextMbc]_vars

\* C8: after any writes to the control windows the low five bits of the
\* selected ROM bank are not zero; a value with low five bits 0 written to
\* 0x2000-0x3FFF selects low bits 1; and the switchable window does not show
\* bank 0 (whose first byte is 0xA0).
C8_BankZeroRemapped ==
    /\ mmu.rom_bank % 32 # 0
    /\ (/\ call.op = "write_byte"
        /\ call.arg.addr \in \h2000..\h3FFF
        /\ call.arg.val % 32 = 0) => mmu.rom_bank % 32 = 1
    /\ read_byte(mmu, \h4000) # \hA0

\* Bank 2 was selected and then 0xE0 written to the bank window: bank 1.
C8_Witness ==
    /\ call.op = "write_byte" /\ call.arg = [addr |-> \h3FFF, val |-> \hE0]
    /\ mmu.rom_bank = 1 /\ read_byte(mmu, \h4000) = \hA1
    /\ mmu.ram_bank = 2

---------------------------------------------------------------------------
(* lib.rs: save_state and load_state.  A text is what serde_json's reader   *)
(* makes of it before the derived Deserialize of SaveState sees it: an      *)
(* object (members in the order written), an array, or something that is    *)
(* no JSON value at all.  A member's value is an integer literal (sign and  *)
(* decimal digits as written) or something else (string, fraction, null,    *)
(* nested value).                                                           *)

\* struct SaveState: the field names in declaration order, and their types.
Fields == <<"a", "f", "b", "c", "d", "e", "h", "l", "sp", "pc", "cycles">>

Max(k) ==
    IF k = "cycles" THEN <<Limb - 1, Limb - 1>>                  \* u32
    ELSE IF k \in {"sp", "pc"} THEN <<0, Limb - 1>>              \* u16
    ELSE <<0, 255>>                                              \* u8

IntToken(neg, digits) == [kind |-> "int", neg |-> neg, digits |-> digits]
OtherToken == [kind |-> "other", neg |-> FALSE, digits |-> <<>>]

Object(members) == [form |-> "object", items |-> members]
Array(tokens) == [form |-> "array", items |-> [i \in DOMAIN tokens |-> <<"", tokens[i]>>]]
Garbage == [form |-> "garbage", items |-> <<>>]

\* x \div 10 and x % 10 of a 32-bit value held as two 16-bit limbs.
Div10(x) == <<x[1] \div 10, ((x[1] % 10) * Limb + x[2]) \div 10>>
Mod10(x) == ((x[1] % 10) * Limb + x[2]) % 10

\* The decimal digits serde_json writes for an unsigned integer.
RECURSIVE DigitsFrom(_)
DigitsFrom(x) == IF x = Zero32 THEN <<>> ELSE Append(DigitsFrom(Div10(x)), Mod10(x))

Digits(x) == IF x = Zero32 THEN <<0>> ELSE DigitsFrom(x)

\* The value of a digit string as two limbs, or None once it passes 2^32 - 1.
RECURSIVE ValueOf(_, _)
ValueOf(digits, n) ==
    IF n = 0 THEN Some(Zero32)
    ELSE LET front == ValueOf(digits, n - 1)
             lo == front[1][2] * 10 + digits[n]
             hi == front[1][1] * 10 + (lo \div Limb)
         IN  IF front = None \/ hi >= Limb THEN None ELSE Some(<<hi, lo % Limb>>)

LessEq32(x, y) == x[1] < y[1] \/ (x[1] = y[1] /\ x[2] <= y[2])

\* Deserialize of an unsigned integer field: Some(value), or None for what
\* is no integer literal, is negative, is written with a leading zero, or
\* exceeds the field's type.
Unsigned(token, k) ==
    LET d == token.digits
        v == ValueOf(d, Len(d))
    IN  IF \/ token.kind # "int" \/ token.neg \/ Len(d) = 0
           \/ (Len(d) > 1 /\ d[1] = 0)
           \/ v = None
        THEN None
        ELSE IF LessEq32(v[1], Max(k)) THEN v ELSE None

\* Where the members keyed k stand in an object.
Members(text, k) == {i \in DOMAIN text.items : text.items[i][1] = k}

\* serde_json::from_str::<SaveState>: Some(record of the eleven values) or
\* None.  An object gives each field once (an unknown key is skipped, a
\* repeated or missing field is an error); an array gives the eleven values
\* in declaration order and nothing more.
from_str(text) ==
    LET item(i) == text.items[i][2]
        at(k) == CHOOSE i \in Members(text, k) : TRUE
        pos(k) == CHOOSE i \in DOMAIN Fields : Fields[i] = k
        names == {Fields[i] : i \in DOMAIN Fields}
    IN  CASE text.form = "object" ->
               IF \A k \in names :
                     /\ Cardinality(Members(text, k)) = 1
                     /\ Unsigned(item(at(k)), k) # None
               THEN Some([k \in names |-> Unsigned(item(at(k)), k)[1]])
               ELSE None
          [] text.form = "array" ->
               IF /\ Len(text.items) = Len(Fields)
                  /\ \A k \in names : Unsigned(item(pos(k)), k) # None
               THEN Some([k \in names |-> Unsigned(item(pos(k)), k)[1]])
               ELSE None
          [] OTHER -> None

\* serde_json::to_string(&state): the members in declaration order.
to_string(state) ==
    Object([i \in DOMAIN Fields |-> <<Fields[i], IntToken(FALSE, Digits(state[Fields[i]]))>>])

\* save_state with sp and pc taken from each other's register.
save_state_sp_pc_swapped(g) ==
    LET r == g.registers
    IN  to_string([a |-> <<0, r.a>>, f |-> <<0, r.f>>, b |-> <<0, r.b>>,
                   c |-> <<0, r.c>>, d |-> <<0, r.d>>, e |-> <<0, r.e>>,
                   h |-> <<0, r.h>>, l |-> <<0, r.l>>, sp |-> <<0, r.pc>>,
                   pc |-> <<0, r.sp>>, cycles |-> g.cycles])

save_state(g) ==
    LET r == g.registers
    IN  to_string([a |-> <<0, r.a>>, f |-> <<0, r.f>>, b |-> <<0, r.b>>,
                   c |-> <<0, r.c>>, d |-> <<0, r.d>>, e |-> <<0, r.e>>,
                   h |-> <<0, r.h>>, l |-> <<0, r.l>>, sp |-> <<0, r.sp>>,
                   pc |-> <<0, r.pc>>, cycles |-> g.cycles])

\* The assignments of load_state, in order, from the field values st.
Assign(g, st) ==
    [g EXCEPT !.registers = [@ EXCEPT !.a = st.a[2], !.f = st.f[2], !.b = st.b[2],
                                      !.c = st.c[2], !.d = st.d[2], !.e = st.e[2],
                                      !.h = st.h[2], !.l = st.l[2],
                                      !.sp = st.sp[2], !.pc = st.pc[2]],
              !.cycles = st.cycles]

\* load_state reading an object member by member and storing each field as
\* it comes, up to the first member it cannot take.
RECURSIVE StoreMembers(_, _, _)
StoreMembers(g, text, n) ==
    IF n = 0 THEN [g |-> g, ok |-> text.form = "object"]
    ELSE LET front == StoreMembers(g, text, n - 1)
             k == text.items[n][1]
             v == Unsigned(text.items[n][2], k)
         IN  IF ~front.ok \/ k \notin {Fields[i] : i \in DOMAIN Fields} THEN front
             ELSE IF v = None THEN [front EXCEPT !.ok = FALSE]
             ELSE IF k = "cycles" THEN [front EXCEPT !.g.cycles = v[1]]
             ELSE [front EXCEPT !.g.registers[k] = v[1][2]]

load_state_member_by_member(g, s) == StoreMembers(g, s, Len(s.items)).g

load_state(g, s) ==
    LET st == from_str(s)
    IN  IF st # None THEN Assign(g, st[1]) ELSE g

---------------------------------------------------------------------------
(* Saving and loading between frames.                                      *)

\* Three register pairs loaded, then for ever: CALL a routine that copies BC
\* to AF through the stack, INC BC.
RomPairs ==
    Image(At(\h0100, <<\h21, \h23, \hC1,        \* LD HL,0xC123
                       \h11, \h9A, \h78,        \* LD DE,0x789A
                       \h01, \h34, \h12,        \* LD BC,0x1234
                       \hCD, \h20, \h01,        \* CALL 0x0120
                       \h03,                    \* INC BC
                       \h18, \hFA>>) @@         \* JR -6
          At(\h0120, <<\hC5,                    \* PUSH BC
                       \hF1,                    \* POP AF
                       \hC9>>))                 \* RET

Tok(digits) == IntToken(FALSE, digits)

\* A record written elsewhere: a = 18, f = 176, b = 52, c = 86, d = 120,
\* e = 154, h = 188, l = 222, sp = 0xD000, pc = 0x0109, cycles = 4000000000.
Foreign ==
    << <<"a", Tok(<<1, 8>>)>>, <<"f", Tok(<<1, 7, 6>>)>>, <<"b", Tok(<<5, 2>>)>>,
       <<"c", Tok(<<8, 6>>)>>, <<"d", Tok(<<1, 2, 0>>)>>, <<"e", Tok(<<1, 5, 4>>)>>,
       <<"h", Tok(<<1, 8, 8>>)>>, <<"l", Tok(<<2, 2, 2>>)>>,
       <<"sp", Tok(<<5, 3, 2, 4, 8>>)>>, <<"pc", Tok(<<2, 6, 5>>)>>,
       <<"cycles", Tok(<<4, 0, 0, 0, 0, 0, 0, 0, 0, 0>>)>> >>

\* The largest value each type takes, as written.
MaxDigits(k) ==
    IF k = "cycles" THEN <<4, 2, 9, 4, 9, 6, 7, 2, 9, 5>>
    ELSE IF k \in {"sp", "pc"} THEN <<6, 5, 5, 3, 5>>
    ELSE <<2, 5, 5>>

\* The digits of the number one above it.
OverDigits(k) ==
    IF k = "cycles" THEN <<4, 2, 9, 4, 9, 6, 7, 2, 9, 6>>
    ELSE IF k \in {"sp", "pc"} THEN <<6, 5, 5, 3, 6>>
    ELSE <<2, 5, 6>>

With(members, k, token) ==
    [i \in DOMAIN members |-> IF members[i][1] = k THEN <<k, token>> ELSE members[i]]

Without(members, k) == SelectSeq(members, LAMBDA m : m[1] # k)

Reverse(seq) == [i \in DOMAIN seq |-> seq[Len(seq) + 1 - i]]

Values(members) == [i \in DOMAIN members |-> members[i][2]]

\* Records that are complete: as written, in another order with a key the
\* struct does not have, as an array, and with a, sp and cycles at the top
\* of their types.
Complete ==
    {Object(Foreign),
     Object(Reverse(Foreign) \o << <<"ime", OtherToken>> >>),
     Array(Values(Foreign)),
     Object(With(With(With(Foreign, "a", Tok(MaxDigits("a"))),
                      "sp", Tok(MaxDigits("sp"))),
                 "cycles", Tok(MaxDigits("cycles"))))}

\* Texts that are not.
Malformed ==
    {Garbage, Object(<<>>)}
    \cup {Object(Without(Foreign, k)) : k \in {"a", "pc", "cycles"}}
    \cup {Object(With(Foreign, k, Tok(OverDigits(k)))) : k \in {"a", "sp", "cycles"}}
    \cup {Object(With(Foreign, "a", IntToken(TRUE, <<1>>))),
          Object(With(Foreign, "l", OtherToken)),
          Object(With(Foreign, "a", Tok(<<0, 1, 8>>))),
          Object(Foreign \o << <<"a", Tok(<<1, 8>>)>> >>),
          Array(SubSeq(Values(Foreign), 1, 10)),
          Array(Values(Foreign) \o <<Tok(<<0>>)>>)}

Texts == Complete \cup Malformed

\* After load_rom(RomPairs) and start().
InitState ==
    StartsAs([GBReset(MMULoadRom(MMUNew, RomPairs), PPUNew) EXCEPT !.running = TRUE],
             NoCall("start"))

\* The host calls save_state() and holds the text.
SaveState ==
    /\ pc = "idle"
    /\ call' = [NoCall("save_state") EXCEPT !.arg = save_state(Core)]
    /\ UNCHANGED <<running, mmu, registers, timer, input, ppu, apu, cycles, halted, ime,
                   ime_scheduled, last_interrupt, pc, frame_cycles, frame_ready,
                   last, frames, steps>>

\* The host calls load_state(text).
LoadState(text) ==
    /\ pc = "idle"
    /\ \E g \in {load_state(Core, text)} :
          /\ mmu' = g.mmu
          /\ registers' = g.registers
          /\ cycles' = g.cycles
          /\ halted' = g.halted
          /\ ime' = g.ime
          /\ ime_scheduled' = g.ime_scheduled
          /\ last_interrupt' = g.last_interrupt
    /\ call' = [NoCall("load_state") EXCEPT !.arg = text]
    /\ UNCHANGED <<running, timer, input, ppu, apu, pc, frame_cycles, frame_ready,
                   last, frames, steps>>

\* load_state(save_state())
LoadSaved == call.op = "save_state" /\ LoadState(call.arg)

NextState ==
    \/ RunFrame
    \/ LoopTest
    \/ Step
    \/ Return
    \/ SaveState
    \/ LoadSaved
    \/ \E text \in Texts : LoadState(text)

SpecState == InitState /\ [][NextState]_vars

\* What load_state never touches.
Untouched ==
    <<mmu, timer, ppu, apu, input, ime, ime_scheduled, halted, running,
      last_interrupt>>

\* C9: load_state(save_state()) leaves the ten registers and the cycle
\* accumulator as they are, and load_state of any text leaves memory, the
\* bank state, the I/O registers, the PPU, timer and APU counters, IME, the
\* halt flag and the run gate as they are.
C9_SaveLoadRoundTrip ==
    [][call'.op = "load_state" =>
          /\ Untouched' = Untouched
          /\ (call.op = "save_state" /\ call'.arg = call.arg) =>
                (registers' = registers /\ cycles' = cycles)]_vars

\* load_state(save_state()) has returned after a frame ran: the
\* accumulator is past 65536 and the stack pointer has moved.
C9_Witness ==
    /\ call.op = "load_state"
    /\ call.arg = save_state(Core)
    /\ frames > 0
    /\ cycles[1] = 1
    /\ registers.b # \h12

\* The digit string d is a number no greater than the digit string m (no
\* leading zero in either).
RECURSIVE LexLessEq(_, _)
LexLessEq(d, m) ==
    IF d = <<>> THEN TRUE
    ELSE IF Head(d) # Head(m) THEN Head(d) < Head(m)
    ELSE LexLessEq(Tail(d), Tail(m))

NoGreater(d, m) == Len(d) < Len(m) \/ (Len(d) = Len(m) /\ LexLessEq(d, m))

\* The token is no integer of field k's type: no integer literal, negative,
\* or above the type's maximum.
OutOfRange(token, k) ==
    \/ token.kind # "int"
    \/ token.neg
    \/ token.digits = <<>>
    \/ ~NoGreater(token.digits, MaxDigits(k))

\* The text is no complete record: unparsable, an object with a field
\* missing or out of range, an array that is short or holds a value out of
\* range.
Defective(text) ==
    \/ text.form = "garbage"
    \/ /\ text.form = "object"
       /\ \E i \in DOMAIN Fields :
             \/ \A j \in DOMAIN text.items : text.items[j][1] # Fields[i]
             \/ \E j \in DOMAIN text.items :
                   /\ text.items[j][1] = Fields[i]
                   /\ OutOfRange(text.items[j][2], Fields[i])
    \/ /\ text.form = "array"
       /\ \/ Len(text.items) < Len(Fields)
          \/ \E i \in DOMAIN Fields : OutOfRange(text.items[i][2], Fields[i])

\* The value the engine holds for field k, as two limbs.
Held(k) == IF k = "cycles" THEN cycles ELSE <<0, registers[k]>>

\* The engine holds, for every one of the eleven fields, a value the text
\* gives for it.
AppliedAll(text) ==
    \A i \in DOMAIN Fields :
       \E j \in DOMAIN text.items :
          /\ text.form = "array" => j = i
          /\ text.form = "object" => text.items[j][1] = Fields[i]
          /\ text.items[j][2].kind = "int"
          /\ ~text.items[j][2].neg
          /\ text.items[j][2].digits = Digits(Held(Fields[i]))

\* C10: load_state of a text that is no complete record changes nothing of
\* the engine, and load_state of any text applies all eleven fields or none.
C10_AllOrNothing ==
    [][call'.op = "load_state" =>
          /\ Defective(call'.arg) => engine' = engine
          /\ engine' = engine \/ AppliedAll(call.arg)']_vars

\* A record whose ninth field is no number was loaded after a frame ran; the
\* eight fields before it were valid and differ from what the engine holds.
C10_Witness ==
    /\ call.op = "load_state"
    /\ call.arg = Object(With(Foreign, "l", OtherToken))
    /\ frames > 0
    /\ registers.h = \hC1
    /\ registers.a # 18

---------------------------------------------------------------------------
(* reset()                                                                 *)

\* C11: reset() leaves the registers at their power-on values, the cycle
\* accumulator at 0, the halt flag, IME and the scheduled IME false and the
\* run gate off, and the loaded ROM as it was, byte for byte.
C11_ResetRestores ==
    [][call'.op = "reset" =>
          /\ registers' = RegistersNew
          /\ registers'.a = \h01 /\ registers'.f = \hB0
          /\ registers'.b = \h00 /\ registers'.c = \h13
          /\ registers'.d = \h00 /\ registers'.e = \hD8
          /\ registers'.h = \h01 /\ registers'.l = \h4D
          /\ registers'.sp = \hFFFE /\ registers'.pc = \h0100
          /\ cycles' = Zero32
          /\ ~halted' /\ ~ime' /\ ~ime_scheduled' /\ ~running'
          /\ mmu'.rom = mmu.rom /\ mmu'.rom_len = mmu.rom_len]_vars

\* reset() was called on the LCD cartridge after a frame ran (the
\* accumulator it found was past 65536).
C11_Witness ==
    /\ call.op = "reset"
    /\ call.entry_cycles[1] >= 1
    /\ mmu.rom = RomLcdPhase.bytes
    /\ registers = RegistersNew
    /\ cycles = Zero32

---------------------------------------------------------------------------
(* RAM across reset(): stores into every kind of RAM and into the bank     *)
(* selectors, and reset(), on a color and on a monochrome cartridge with   *)
(* 32 KiB of external RAM.                                                 *)

RomColorRam ==
    [len |-> \h8000,
     bytes |-> (\h0143 :> \h80) @@ (\h0147 :> \h03) @@ (\h0149 :> \h03)]

RomMonoRam ==
    [len |-> \h8000, bytes |-> (\h0147 :> \h03) @@ (\h0149 :> \h03)]

InitRam ==
    \E rom \in {RomColorRam, RomMonoRam} :
       StartsAs(GBReset(MMULoadRom(MMUNew, rom), PPUNew), NoCall("load_rom"))

\* The stores: RAM enable, RAM banking mode and bank 1, VRAM bank 1, WRAM
\* bank 2, and 0x5A into VRAM, external RAM, both halves of WRAM, OAM and
\* high RAM.
RamStores ==
    {<<\h0000, \h0A>>, <<\h6000, \h01>>, <<\h4000, \h01>>,
     <<\hFF4F, \h01>>, <<\hFF70, \h02>>,
     <<\h8000, \h5A>>, <<\hA000, \h5A>>, <<\hC000, \h5A>>, <<\hDFFF, \h5A>>,
     <<\hFE00, \h5A>>, <<\hFFFE, \h5A>>}

NextRam ==
    \/ \E w \in RamStores : ControlWrite(w[1], w[2])
    \/ Reset

SpecRam == InitRam /\ [][NextRam]_vars

\* The memory unit with the given banks selected and external RAM enabled.
Selected(m, vb, wb, rb) ==
    [m EXCEPT !.vram_bank = vb, !.wram_bank = wb, !.ram_bank = rb,
              !.ram_enabled = TRUE]

\* Every byte of the window lo..hi reads 0.
ReadsZero(m, lo, hi) == \A a \in lo..hi : read_byte(m, a) = 0

\* C12: after reset() every address of video RAM, work RAM, external RAM,
\* OAM and high RAM reads 0, in both video-RAM banks, in every switchable
\* work-RAM bank and in every external-RAM bank.
C12_ResetClearsRam ==
    call.op = "reset" =>
       /\ \A vb \in 0..1 : ReadsZero(Selected(mmu, vb, 1, 0), \h8000, \h9FFF)
       /\ \A rb \in 0..3 : ReadsZero(Selected(mmu, 0, 1, rb), \hA000, \hBFFF)
       /\ ReadsZero(mmu, \hC000, \hCFFF)
       /\ \A wb \in 1..7 : ReadsZero(Selected(mmu, 0, wb, 0), \hD000, \hDFFF)
       /\ ReadsZero(mmu, \hFE00, \hFE9F)
       /\ ReadsZero(mmu, \hFF80, \hFFFE)

---------------------------------------------------------------------------
(* The joypad: press_button and release_button for the eight buttons       *)
(* (Right, Left, Up, Down, A, B, Select, Start are bits 0..7), stores of   *)
(* the four select-line settings to 0xFF00, and reset().                   *)

\* Input::press_button: self.buttons &= !(1 << button);
InputPressButton(i, button) == [i EXCEPT !.buttons = ClearBit(@, button)]

\* Input::release_button: self.buttons |= 1 << button;
InputReleaseButton(i, button) == [i EXCEPT !.buttons = SetBit(@, button)]

\* A call that changes the input latch and the memory unit only.
ButtonCall(op, bit, i, m) ==
    /\ input' = i
    /\ mmu' = m
    /\ call' = [NoCall(op) EXCEPT !.arg = bit]
    /\ UNCHANGED <<running, registers, timer, ppu, apu, cycles, halted, ime,
                   ime_scheduled, last_interrupt, pc, frame_cycles, frame_ready,
                   last, frames, steps>>

\* GameBoy::press_button(bit)
PressButton(bit) ==
    ButtonCall("press_button", bit, InputPressButton(input, bit),
               joypad_press(mmu, bit))

\* GameBoy::release_button(bit)
ReleaseButton(bit) ==
    ButtonCall("release_button", bit, InputReleaseButton(input, bit),
               joypad_release(mmu, bit))

InitJoyp ==
    StartsAs(GBReset(MMULoadRom(MMUNew, RomMonoRam), PPUNew), NoCall("load_rom"))

NextJoyp ==
    \/ \E bit \in 0..7 : PressButton(bit)
    \/ \E bit \in 0..7 : ReleaseButton(bit)
    \/ \E val \in {\h00, \h10, \h20, \h30} : ControlWrite(\hFF00, val)
    \/ Reset

SpecJoyp == InitJoyp /\ [][NextJoyp]_vars

\* Button k is held: the last press_button(k) was not followed by a
\* release_button(k) or a reset (the input latch is active-low).
Pressed(k) == Bit(input.buttons, k) = 0

\* The D-pad group (buttons 0..3) is selected by a cleared bit 4 of the last
\* select-line setting, the action group (buttons 4..7) by a cleared bit 5.
DpadSelected == Bit(mmu.io[\h00], 4) = 0
ActionSelected == Bit(mmu.io[\h00], 5) = 0

\* C13: bit j of the low nibble read at 0xFF00 is 0 exactly when a selected
\* group's button j is pressed; every other low-nibble bit reads 1 (so all
\* four read 1 when nothing is pressed).
C13_JoypadRead ==
    \A j \in 0..3 :
       Bit(read_byte(mmu, \hFF00), j) = 0 <=>
          \/ DpadSelected /\ Pressed(j)
          \/ ActionSelected /\ Pressed(4 + j)

---------------------------------------------------------------------------
(* The scanline register: frames of a cartridge that keeps storing to      *)
(* 0xFF44, by LDH, through HL, by a read-modify-write and by a push.        *)

RomLyStores ==
    Image(At(\h0100, <<\h3E, \h99,              \* LD A,0x99
                       \hE0, \h44,              \* LDH (0x44),A
                       \h21, \h44, \hFF,        \* LD HL,0xFF44
                       \h36, \h05,              \* LD (HL),5
                       \h34,                    \* INC (HL)
                       \h31, \h46, \hFF,        \* LD SP,0xFF46
                       \hC5,                    \* PUSH BC   0xFF45, 0xFF44
                       \h18, \hF0>>))           \* JR -16

InitLy ==
    StartsAs(GBReset(MMULoadRom(MMUNew, RomLyStores), PPUNew), NoCall("load_rom"))

NextLy ==
    \/ Reset
    \/ Start
    \/ Stop
    \/ RunFrame
    \/ LoopTest
    \/ Step
    \/ Return

SpecLy == InitLy /\ [][NextLy]_vars

\* C14: LY is always in 0..153; a store of any value to 0xFF44 leaves it as
\* it is; a loop iteration of run_frame (the only caller of the PPU step)
\* leaves it or advances it by 1 modulo 154, and nothing else changes it
\* (reset and load_rom start it again at 0).
C14_LyDriven ==
    [][/\ get_ly(mmu) \in 0..153 /\ get_ly(mmu') \in 0..153
       /\ \A val \in Byte : get_ly(write_byte(mmu, \hFF44, val)) = get_ly(mmu)
       /\ IF pc = "body"
          THEN get_ly(mmu') \in {get_ly(mmu), (get_ly(mmu) + 1) % 154}
          ELSE get_ly(mmu') = IF call'.op \in {"reset", "load_rom"}
                              THEN 0 ELSE get_ly(mmu)]_vars

\* LDH (0x44),A has just stored 0x99 while LY was 153, in the second frame
\* (LY wrapped to 0 at the end of the first).
C14_Witness ==
    /\ pc = "test" /\ last.path = "opcode" /\ last.pc = \h0102
    /\ registers.a = \h99
    /\ get_ly(mmu) = 153
    /\ frames = 2

---------------------------------------------------------------------------
(* The renderer: frames of cartridges that set the scroll registers, a     *)
(* tile-map byte, a tile-data byte and LCDC, and then loop.                *)

RenderRom(lcdc, scy, scx, tile) ==
    Image(At(\h0100, <<\h3E, scy,               \* LD A,scy
                       \hE0, \h42,              \* LDH (0x42),A   SCY
                       \h3E, scx,               \* LD A,scx
                       \hE0, \h43,              \* LDH (0x43),A   SCX
                       \h3E, tile,              \* LD A,tile
                       \hEA, \h00, \h98,        \* LD (0x9800),A  tile map
                       \hEA, \hFF, \h9F,        \* LD (0x9FFF),A  tile map
                       \h21, \h00, \h80,        \* LD HL,0x8000
                       \h36, \hA5,              \* LD (HL),0xA5   tile data
                       \h3E, lcdc,              \* LD A,lcdc
                       \hE0, \h40,              \* LDH (0x40),A   LCDC
                       \h18, \hFE>>))           \* JR -2

\* LCDC with the background on from either tile map and with either tile
\* addressing, and with the background off; scroll offsets 0, mid-tile and
\* 255.
RenderRoms ==
    {RenderRom(\h91, 0, 0, 0), RenderRom(\h99, 255, 7, 0),
     RenderRom(\h81, 144, 255, 128), RenderRom(\h89, 3, 250, 255),
     RenderRom(\h90, 0, 0, 0)}

InitRender ==
    \E rom \in RenderRoms :
       StartsAs(GBReset(MMULoadRom(MMUNew, rom), PPUNew), NoCall("load_rom"))

NextRender ==
    \/ Reset
    \/ Start
    \/ RunFrame
    \/ LoopTest
    \/ Step
    \/ Return

SpecRender == InitRender /\ [][NextRender]_vars

\* C15: the framebuffer is 160 * 144 * 4 bytes; no bounds check of the
\* renderer fails; each line drawn is one of 0..143 and the index of each of
\* its 160 pixels, with the three bytes after it, lies inside the buffer;
\* the buffer holds nothing outside lines 0..143 and columns 0..159.
C15_PixelsInBounds ==
    /\ frame_buffer_len = 160 * 144 * 4
    /\ ~last.panic
    /\ \A i \in DOMAIN last.rendered :
          /\ last.rendered[i] \in 0..143
          /\ \A x \in 0..159 :
                /\ pixel_index(last.rendered[i], x) >= 0
                /\ pixel_index(last.rendered[i], x) + 3 < frame_buffer_len
    /\ DOMAIN ppu.frame_buffer \subseteq 0..143
    /\ \A ly \in DOMAIN ppu.frame_buffer :
          DOMAIN ppu.frame_buffer[ly] \subseteq 0..159

\* The last line, 143, has just been drawn with background pixels, the
\* background scrolled by 255 lines and 7 columns.
C15_Witness ==
    /\ last.rendered = <<143>>
    /\ 143 \in DOMAIN ppu.frame_buffer
    /\ mmu.io[\h42] = 255 /\ mmu.io[\h43] = 7

---------------------------------------------------------------------------
(* The RAM-enable latch: stores to the ends of the enable window, of the   *)
(* external-RAM window and of the unusable gap, and reset(), on a          *)
(* cartridge with external RAM.                                            *)

InitGate ==
    StartsAs(GBReset(MMULoadRom(MMUNew, RomMonoRam), PPUNew), NoCall("load_rom"))

GateAddrs == {\h0000, \h1FFF, \hA000, \hBFFF, \hFEA0, \hFEFF}

\* Low nibble 0xA with the high nibble clear and set, and two others.
GateVals == {\h00, \h0A, \h5A, \hFA, \hA0}

NextGate ==
    \/ \E addr \in GateAddrs, val \in GateVals : ControlWrite(addr, val)
    \/ Reset

SpecGate == InitGate /\ [][NextGate]_vars

\* C16: a store to 0x0000-0x1FFF sets the RAM-enable latch when its low
\* nibble is 0xA and clears it otherwise, and no other store changes the
\* latch; with the latch clear every address of 0xA000-0xBFFF reads 0xFF and
\* a store there changes nothing; every address of 0xFEA0-0xFEFF reads 0xFF
\* and a store there changes nothing.
C16_RamGate ==
    [][/\ call'.op = "write_byte" =>
            /\ mmu'.ram_enabled = IF call'.arg.addr <= \h1FFF
                                  THEN call'.arg.val % 16 = 10
                                  ELSE mmu.ram_enabled
            /\ (call'.arg.addr \in \hA000..\hBFFF /\ ~mmu.ram_enabled) => mmu' = mmu
            /\ call'.arg.addr \in \hFEA0..\hFEFF => mmu' = mmu
       /\ ~mmu'.ram_enabled => \A a \in \hA000..\hBFFF : read_byte(mmu', a) = \hFF
       /\ \A a \in \hFEA0..\hFEFF : read_byte(mmu', a) = \hFF]_vars

\* A store of 0x5A to 0xA000 has just been dropped: the latch was cleared by
\* 0xA0 after 0xFA had been stored there through the open latch.
C16_Witness ==
    /\ call.op = "write_byte" /\ call.arg.addr = \hA000 /\ call.arg.val = \h5A
    /\ ~mmu.ram_enabled
    /\ Get(mmu.eram, 0) = \hFA
    /\ read_byte(mmu, \hA000) = \hFF

---------------------------------------------------------------------------
(* Bank indices against the banks present, over the control-window writes  *)
(* of SpecMbc (a four-bank image).                                         *)

\* The number of 16 KiB banks of the loaded image, and of 8 KiB banks of
\* external RAM.
RomBanks(m) == m.rom_len \div \h4000
RamBanks(m) == m.eram_len \div \h2000

\* C17: the switchable ROM window shows bank (rom_bank mod number of banks
\* in the image), byte for byte, and an enabled external-RAM read uses bank
\* (ram_bank mod number of RAM banks present).
C17_BankModulo ==
    /\ \A k \in 0..\h3FFF :
          read_byte(mmu, \h4000 + k) =
             Get(mmu.rom, (mmu.rom_bank % RomBanks(mmu)) * \h4000 + k)
    /\ (mmu.ram_enabled /\ RamBanks(mmu) > 0) =>
          \A k \in 0..\h1FFF :
             read_byte(mmu, \hA000 + k) =
                Get(mmu.eram, (mmu.ram_bank % RamBanks(mmu)) * \h2000 + k)

---------------------------------------------------------------------------
(* load_rom and the size of external RAM: cartridges with each RAM-size    *)
(* code loaded one after another into a new engine, and stores that enable *)
(* external RAM and write to the ends of its window.                       *)

\* A 32 KiB MBC1+RAM image whose header byte 0x0149 is ram_size.
RamSizeRom(ram_size) ==
    [len |-> \h8000,
     bytes |-> IF ram_size = 0 THEN (\h0147 :> \h03)
               ELSE (\h0147 :> \h03) @@ (\h0149 :> ram_size)]

\* The five codes of the table, the first beyond it, and the largest byte.
RamSizeCodes == {0, 1, 2, 3, 4, 5, 255}

NextRamSize ==
    \/ \E ram_size \in RamSizeCodes : LoadRom(RamSizeRom(ram_size))
    \/ \E w \in {<<\h0000, \h0A>>, <<\hA000, \h5A>>, <<\hBFFF, \h5A>>} :
          ControlWrite(w[1], w[2])

SpecRamSize == Init /\ [][NextRamSize]_vars

\* The external RAM size the header byte 0x0149 of the loaded image asks
\* for: the table for 0..4, none above.
HeaderRamSize ==
    CASE Get(mmu.rom, \h0149) = 0 -> 0
      [] Get(mmu.rom, \h0149) = 1 -> 2048
      [] Get(mmu.rom, \h0149) = 2 -> 8192
      [] Get(mmu.rom, \h0149) = 3 -> 32768
      [] Get(mmu.rom, \h0149) = 4 -> 131072
      [] OTHER -> 0

\* C18: once an image is loaded, external RAM has the size its header byte
\* 0x0149 asks for (0, 2 KiB, 8 KiB, 32 KiB, 128 KiB for 0..4, nothing
\* above 4), whatever was loaded before; with nothing present no byte of
\* 0xA000-0xBFFF reads back what an enabled store put there.
C18_RamSizedFromHeader ==
    Get(mmu.rom, \h0147) = \h03 =>
       /\ mmu.eram_len = HeaderRamSize
       /\ HeaderRamSize = 0 =>
             \A a \in \hA000..\hBFFF :
                read_byte(write_byte([mmu EXCEPT !.ram_enabled = TRUE], a, \h5A), a)
                   # \h5A

---------------------------------------------------------------------------
(* EI with a request already raised and enabled: the first steps of a      *)
(* frame over cartridges that run  IE := ie; IF := if; EI; INC B; NOP...   *)
(* with IME off, as reset leaves it.                                       *)

EiRom(ie, if_) ==
    Image(At(\h0100, <<\h3E, ie,                \* LD A,ie
                       \hE0, \hFF,              \* LDH (0xFF),A   IE
                       \h3E, if_,               \* LD A,if
                       \hE0, \h0F,              \* LDH (0x0F),A   IF
                       \hFB,                    \* EI             at 0x0108
                       \h04>>))                 \* INC B          at 0x0109

InitEi ==
    \E ie \in IrqMasks, if_ \in IrqMasks :
        StartsAs([GBReset(MMULoadRom(MMUNew, EiRom(ie, if_)), PPUNew)
                     EXCEPT !.running = TRUE],
                 NoCall("start"))

SpecEi == InitEi /\ [][NextStep]_vars

\* C19: the step that executes EI (the one that leaves IME scheduled)
\* dispatches nothing, and the step after it, begun with IME still off and
\* a request raised and enabled, fetches and executes the next instruction
\* instead of dispatching.
C19_EiDelaysOneInstruction ==
    /\ (ime_scheduled /\ ~last.ime_scheduled) =>
          (last.path = "opcode" /\ last.pc_after = last.pc + 1)
    /\ (last.ime_scheduled /\ ~last.ime /\ ~last.halted /\ Pending # 0) =>
          (last.path = "opcode" /\ last.pc_after = last.pc + 1)

---------------------------------------------------------------------------
(* Interrupt dispatch: frames of cartridges that enable the joypad         *)
(* interrupt and halt with IME on, the host pressing button 4 between      *)
(* frames.  The handler at 0x0060 returns with RETI.                       *)

HaltIrqRom(sp) ==
    Image(At(\h0060, <<\hD9>>) @@               \* RETI
          At(\h0100, <<\hC3, \h50, \h01>>) @@   \* JP 0x0150
          At(\h0150, <<\h31, sp % 256, sp \div 256,   \* LD SP,sp
                       \h3E, \h10,              \* LD A,0x10
                       \hE0, \hFF,              \* LDH (0xFF),A   IE
                       \hFB,                    \* EI
                       \h76,                    \* HALT           at 0x0158
                       \h18, \hFD>>))           \* JR -3

\* A stack in high RAM, and one whose second pushed byte lands on IF.
DispatchStacks == {\hFFFE, \hFF11}

InitDispatch ==
    \E sp \in DispatchStacks :
        StartsAs([GBReset(MMULoadRom(MMUNew, HaltIrqRom(sp)), PPUNew)
                     EXCEPT !.running = TRUE],
                 NoCall("start"))

\* The host presses button 4 once, between frames.
PressOnce == pc = "idle" /\ ~Pressed(4) /\ PressButton(4)

NextDispatch ==
    \/ PressOnce
    \/ RunFrame
    \/ LoopTest
    \/ Step
    \/ Return

SpecDispatch == InitDispatch /\ [][NextDispatch]_vars

\* The last step fetched no opcode: it cleared IME and bit Lowest of IF,
\* stored the program counter below the stack pointer, high byte first,
\* took two from the stack pointer, jumped to the vector and cost 20 cycles.
Dispatched ==
    /\ last.path = "interrupt"
    /\ ~ime
    /\ Bit(last.if_after, Lowest) = 0
    /\ read_byte(mmu, U16(last.sp - 1)) = last.pc \div 256
    /\ read_byte(mmu, U16(last.sp - 2)) = last.pc % 256
    /\ last.sp_after = U16(last.sp - 2)
    /\ last.pc_after = \h40 + 8 * Lowest
    /\ last.cycles = 20

\* C20 as stated: a step begun with IME on, a request raised and enabled and
\* the stack pointer at 0x8100 or above dispatches.
C20_Dispatch == (last.ime /\ Pending # 0 /\ last.sp >= \h8100) => Dispatched

\* C20 amended: the same of a step begun with the CPU not halted and the
\* stack pointer not at 0xFF10 or 0xFF11.
C20_DispatchRunning ==
    (/\ last.ime /\ Pending # 0 /\ last.sp >= \h8100
     /\ ~last.halted
     /\ last.sp \notin {\hFF10, \hFF11}) => Dispatched

\* The joypad interrupt dispatched from the JR after HALT, in the step after
\* the one that woke the CPU: 0x01 at 0xFFFD, 0x59 at 0xFFFC.
C20_Witness ==
    /\ last.ime /\ Pending = 16 /\ ~last.halted /\ last.sp = \hFFFE
    /\ last.path = "interrupt" /\ last.pc = \h0159
    /\ registers.pc = \h60 /\ registers.sp = \hFFFC
    /\ read_byte(mmu, \hFFFD) = \h01 /\ read_byte(mmu, \hFFFC) = \h59

---------------------------------------------------------------------------
(* The interrupt-storm guard, over the steps of SpecStep (stack pointers   *)
(* on both sides of 0x8100).                                               *)

\* C21: a step that takes the interrupt path with SP below 0x8100 clears
\* every bit of IF, leaves SP, PC and every memory outside the I/O block as
\* they were; and no step on the interrupt path leaves SP below 0x80FE.
C21_StormGuard ==
    [][(pc = "body" /\ last'.path = "interrupt") =>
          /\ registers.sp < \h8100 =>
                /\ last'.if_after = 0
                /\ registers'.sp = registers.sp
                /\ registers'.pc = registers.pc
                /\ [mmu' EXCEPT !.io = mmu.io] = mmu
          /\ registers'.sp >= \h80FE]_vars

\* The guard has just discarded the requests 0, 2 and 4 at once, with the
\* stack pointer at 0x80FF.
C21_Witness ==
    /\ last.path = "interrupt" /\ last.sp = \h80FF
    /\ BitAnd(last.if_, last.ie) % 32 = 21
    /\ last.if_after = 0 /\ registers.sp = \h80FF /\ registers.pc = last.pc

---------------------------------------------------------------------------
(* The halted CPU: frames of cartridges that set IE and IF, optionally run *)
(* EI, and halt; the host presses button 4 between frames.                 *)

HaltRom(ie, if_, ei) ==
    Image(At(\h0060, <<\hD9>>) @@               \* RETI
          At(\h0100, <<\h3E, ie,                \* LD A,ie
                       \hE0, \hFF,              \* LDH (0xFF),A   IE
                       \h3E, if_,               \* LD A,if
                       \hE0, \h0F,              \* LDH (0x0F),A   IF
                       ei,                      \* EI or NOP
                       \h76,                    \* HALT           at 0x0109
                       \h18, \hFD>>))           \* JR -3

\* Joypad enabled with IME on; joypad enabled and requested with IME off;
\* only the three unused bits of IE and IF set, with IME on.
HaltRoms ==
    {HaltRom(\h10, \h00, \hFB), HaltRom(\h10, \h10, \h00),
     HaltRom(\hE0, \hE0, \hFB)}

InitHalt ==
    \E rom \in HaltRoms :
        StartsAs([GBReset(MMULoadRom(MMUNew, rom), PPUNew) EXCEPT !.running = TRUE],
                 NoCall("start"))

NextHalt ==
    \/ frames >= 1 /\ PressOnce
    \/ RunFrame
    \/ LoopTest
    \/ Step
    \/ Return

SpecHalt == InitHalt /\ [][NextHalt]_vars

\* A loop iteration begun halted: nothing fetched (registers, IME, IF and
\* every memory outside the I/O block as before, no dispatch), four cycles
\* returned and fed to the frame budget and the PPU.
HaltedStepIdle ==
    /\ last'.path = "halted"
    /\ registers' = registers
    /\ ime' = ime /\ ime_scheduled' = ime_scheduled
    /\ last'.if_after = mmu.io[\h0F]
    /\ [mmu' EXCEPT !.io = mmu.io] = mmu
    /\ last'.cycles = 4
    /\ frame_cycles' = frame_cycles + 4
    /\ BitAnd(mmu.io[\h40], \h80) # 0 =>
          ppu'.scanline_counter = (ppu.scanline_counter + 4) % SCANLINE_CYCLES

\* C22 as stated: a halted step is idle and clears the halt flag exactly
\* when IE & IF is not zero.
C22_HaltedStep ==
    [][(pc = "body" /\ halted) =>
          /\ HaltedStepIdle
          /\ halted' = (BitAnd(mmu.ie, mmu.io[\h0F]) = 0)]_vars

\* C22 amended: exactly when one of the bits 0..4 of IE & IF is set.
C22_HaltedStepFiveBits ==
    [][(pc = "body" /\ halted) =>
          /\ HaltedStepIdle
          /\ halted' = (BitAnd(BitAnd(mmu.ie, mmu.io[\h0F]), \h1F) = 0)]_vars

\* The button press woke the CPU from a halt entered with IME on: the step
\* left the halt without dispatching.
C22_Witness ==
    /\ last.path = "halted" /\ last.halted /\ last.ime /\ ime
    /\ BitAnd(last.ie, last.if_) = \h10
    /\ ~halted /\ registers.pc = \h010A /\ last.cycles = 4

---------------------------------------------------------------------------
(* The low nibble of F.                                                    *)

\* The record written elsewhere with f = 181 (0xB5), and the same with
\* f = 176 (0xB0).
FlagTexts == {Object(With(Foreign, "f", Tok(<<1, 8, 1>>))), Object(Foreign)}

\* RomPairs between frames, with reset, load_rom, start and load_state calls.
NextFlags ==
    \/ RunFrame
    \/ LoopTest
    \/ Step
    \/ Return
    \/ Reset
    \/ LoadRom(RomPairs)
    \/ Start
    \/ \E text \in FlagTexts : LoadState(text)

SpecFlags == InitState /\ [][NextFlags]_vars

\* C23: in every reachable state the low four bits of F are zero.
C23_FlagsLowNibbleZero == registers.f % 16 = 0

\* The same of every state that no load_state of a foreign record precedes
\* since the last reset: the steps (POP AF of BC = 0x1235 among them), reset
\* and load_rom keep the nibble zero.
C23_StepsKeepNibbleZero ==
    [][(registers.f % 16 = 0 /\ call'.op # "load_state") => registers'.f % 16 = 0]_vars

---------------------------------------------------------------------------
(* The timer's rate.                                                       *)

\* TAC written in the second instruction, then for ever: CALL a routine
\* that returns at once (24 and 16 cycles), JR back (12 cycles).
TimerRom(tac) ==
    Image(At(\h0100, <<\h3E, tac,              \* LD A,tac          8 cycles
                       \hE0, \h07,             \* LDH (0x07),A     12 cycles
                       \hCD, \h20, \h01,       \* CALL 0x0120      24 cycles
                       \h18, \hFB>>) @@        \* JR -5            12 cycles
          At(\h0120, <<\hC9>>))                \* RET              16 cycles

\* The timer enabled at each of the four periods.
TimerControls == {4, 5, 6, 7}

InitTimer ==
    \E tac \in TimerControls :
        StartsAs([GBReset(MMULoadRom(MMUNew, TimerRom(tac)), PPUNew)
                     EXCEPT !.running = TRUE],
                 NoCall("start"))

NextTimer == RunFrame \/ LoopTest \/ Step \/ Return

SpecTimer == InitTimer /\ [][NextTimer]_vars

\* The period TAC selects.
Period == frequencies[BitAnd(mmu.io[\h07], \h03) + 1]

\* The cycles fed to Timer::step since the step that enabled the timer: all
\* but the 8 of LD A,tac (IME is off and nothing halts, so every step is an
\* opcode and adds its cost to the accumulator).
CyclesFed == Int32(cycles) - 8

\* TIMA, from 0 with TMA = 0, counts the ticks applied modulo 256; the
\* residual is below the period and the ticks are floor(fed / period).
TicksExact ==
    /\ timer.tima_counter < Period
    /\ mmu.io[\h05] = (CyclesFed \div Period) % 256

\* C24: with the timer enabled at any of the four periods, after every step
\* the residual counter is below the period and the ticks applied are the
\* cycles fed divided by the period, rounded down.
C24_TimerRate == BitAnd(mmu.io[\h07], \h04) # 0 => TicksExact

\* The same at the periods 1024, 64 and 256, which no step's cost reaches.
C24_SlowRatesExact ==
    (BitAnd(mmu.io[\h07], \h04) # 0 /\ Period > 24) => TicksExact

\* A frame has run at period 64 and TIMA has wrapped at least once.
C24_SlowRatesReached ==
    /\ mmu.io[\h07] = 6 /\ frames = 1 /\ CyclesFed > 64 * 256
    /\ mmu.io[\h05] = (CyclesFed \div 64) % 256

---------------------------------------------------------------------------
(* Timer::step on its own.                                                 *)

\* TAC: off at two rates, on at three; TIMA far from, next to and at the
\* top; TMA; IF with and without the timer's bit.
TickControls == {\h00, \h03, \h04, \h05, \h07}
TickCounters == {\h00, \hFE, \hFF}
TickModulos == {\h00, \hAB}
TickRequests == {\h00, \h04, \hE1}

\* The costs of a step.
StepCosts == {4, 8, 12, 16, 20, 24}

InitTick ==
    \E tac \in TickControls, tima \in TickCounters, tma \in TickModulos,
       if_ \in TickRequests :
        StartsAs([GBNew EXCEPT !.mmu.io = [@ EXCEPT ![\h05] = tima, ![\h06] = tma,
                                                   ![\h07] = tac, ![\h0F] = if_]],
                 NoCall("timer"))

\* self.timer.step(cpu_cycles, &mut self.mmu.io)
TimerTick ==
    /\ steps < MaxSteps
    /\ \E n \in StepCosts :
       \E t \in {TimerStep(timer, n, mmu.io)} :
          /\ timer' = t.timer
          /\ mmu' = [mmu EXCEPT !.io = t.io]
          /\ call' = [NoCall("timer_step") EXCEPT !.arg = n]
    /\ steps' = steps + 1
    /\ UNCHANGED <<running, registers, input, ppu, apu, cycles, halted, ime,
                   ime_scheduled, last_interrupt, pc, frame_cycles, frame_ready,
                   last, frames>>

SpecTick == InitTick /\ [][TimerTick]_vars

\* The step being taken has a tick: the timer is enabled and the counter
\* with the step's cycles reaches the period.
Ticking ==
    /\ BitAnd(mmu.io[\h07], \h04) # 0
    /\ timer.tima_counter + call'.arg >= Period

\* C25: a tick with TIMA = 0xFF reloads TIMA from TMA and sets IF bit 2; a
\* tick with TIMA below 0xFF adds 1 to TIMA and leaves IF; with TAC bit 2
\* clear neither TIMA nor IF changes; and the step changes nothing of the
\* I/O block but DIV, TIMA and IF bit 2, and nothing of the rest of memory.
C25_TimerTick ==
    [][call'.op = "timer_step" =>
         /\ (Ticking /\ mmu.io[\h05] = \hFF) =>
                /\ mmu'.io[\h05] = mmu.io[\h06]
                /\ mmu'.io[\h0F] = BitOr(mmu.io[\h0F], \h04)
         /\ (Ticking /\ mmu.io[\h05] < \hFF) =>
                /\ mmu'.io[\h05] = mmu.io[\h05] + 1
                /\ mmu'.io[\h0F] = mmu.io[\h0F]
         /\ BitAnd(mmu.io[\h07], \h04) = 0 =>
                /\ mmu'.io[\h05] = mmu.io[\h05]
                /\ mmu'.io[\h0F] = mmu.io[\h0F]
         /\ \A o \in DOMAIN mmu.io \ {\h04, \h05, \h0F} : mmu'.io[o] = mmu.io[o]
         /\ BitAnd(mmu'.io[\h0F], \hFB) = BitAnd(mmu.io[\h0F], \hFB)
         /\ [mmu' EXCEPT !.io = mmu.io] = mmu]_vars

\* TIMA has overflowed at period 16 with TMA = 0xAB and IF = 0xE1, and a
\* later tick has counted on from the reloaded value.
C25_Witness ==
    /\ call.op = "timer_step"
    /\ mmu.io[\h07] = \h05 /\ mmu.io[\h06] = \hAB
    /\ mmu.io[\h05] = \hAC /\ mmu.io[\h0F] = \hE5

---------------------------------------------------------------------------
(* The PPU's modes: frames of cartridges that set STAT and LYC and then    *)
(* loop over instructions of 24, 16, 4 and 12 cycles with the LCD on.      *)

PpuRom(stat, lyc) ==
    Image(At(\h0100, <<\h3E, stat,             \* LD A,stat
                       \hE0, \h41,             \* LDH (0x41),A   STAT
                       \h3E, lyc,              \* LD A,lyc
                       \hE0, \h45,             \* LDH (0x45),A   LYC
                       \hCD, \h20, \h01,       \* CALL 0x0120
                       \h00,                   \* NOP
                       \h18, \hFA>>) @@        \* JR -6
          At(\h0120, <<\hC9>>))                \* RET

\* STAT with no enable bit, with each one (and the read-only low bits
\* written as ones), with all four; LYC on a visible line, on the first
\* line, on line 144 and on the last line.
PpuRoms ==
    {PpuRom(\h00, 77), PpuRom(\h0B, 10), PpuRom(\h17, 144), PpuRom(\h25, 153),
     PpuRom(\h44, 0), PpuRom(\h40, 144), PpuRom(\h7F, 0), PpuRom(\h78, 153)}

InitPpu ==
    \E rom \in PpuRoms :
        StartsAs([GBReset(MMULoadRom(MMUNew, rom), PPUNew) EXCEPT !.running = TRUE],
                 NoCall("start"))

NextPpu == RunFrame \/ LoopTest \/ Step \/ Return

SpecPpu == InitPpu /\ [][NextPpu]_vars

\* The mode the line and the counter within it call for.
ModeOf(ly, counter) ==
    IF ly >= 144 THEN MODE_VBLANK
    ELSE IF counter < MODE_OAM_CYCLES THEN MODE_OAM_SCAN
    ELSE IF counter < MODE_OAM_CYCLES + MODE_DRAWING_CYCLES THEN MODE_DRAWING
    ELSE MODE_HBLANK

\* OAM-scan to Drawing, Drawing to H-blank, H-blank to OAM-scan, H-blank to
\* V-blank, V-blank to OAM-scan.
ModeTransitions ==
    {<<MODE_OAM_SCAN, MODE_DRAWING>>, <<MODE_DRAWING, MODE_HBLANK>>,
     <<MODE_HBLANK, MODE_OAM_SCAN>>, <<MODE_HBLANK, MODE_VBLANK>>,
     <<MODE_VBLANK, MODE_OAM_SCAN>>}

LcdOn(m) == BitAnd(m.io[\h40], \h80) # 0

\* C26: with the LCD on, after every PPU step the mode in STAT is V-blank
\* exactly on the lines 144..153, and on a visible line it is OAM-scan
\* while the counter is below 80, Drawing from 80 to 251 and H-blank from
\* 252 to 455; a step changes the mode along one of the five transitions
\* only.
C26_ModeFollowsLine ==
    [][(pc = "body" /\ LcdOn(mmu')) =>
          /\ get_ly(mmu') \in 0..153
          /\ ppu'.scanline_counter \in 0..(SCANLINE_CYCLES - 1)
          /\ get_mode(mmu') = ModeOf(get_ly(mmu'), ppu'.scanline_counter)
          /\ \/ get_mode(mmu') = get_mode(mmu)
             \/ <<get_mode(mmu), get_mode(mmu')>> \in ModeTransitions]_vars

\* The second pass has reached Drawing on line 143 and every mode has been
\* entered since (V-blank to OAM-scan at the wrap included).
C26_Witness ==
    /\ frames = 2 /\ pc = "test"
    /\ get_ly(mmu) = 143 /\ get_mode(mmu) = MODE_DRAWING
    /\ ppu.scanline_counter \in 80..251

\* The step enters the mode: STAT's mode field changes to it.
Enters(mode) == get_mode(mmu) # mode /\ get_mode(mmu') = mode

\* The step raises the STAT request: request_interrupt(1) is called in it.
RaisesStat == \E i \in DOMAIN last'.reqs : last'.reqs[i] = 1

\* C27: a step that enters H-blank with STAT bit 3 set, V-blank with STAT
\* bit 4 set or OAM-scan with STAT bit 5 set raises the STAT interrupt
\* request (IF bit 1) in that step.
C27_ModeStat ==
    [][pc = "body" =>
         \A mode \in {MODE_HBLANK, MODE_VBLANK, MODE_OAM_SCAN} :
            (Enters(mode) /\ Bit(mmu'.io[\h41], mode + 3) = 1) =>
               RaisesStat /\ Bit(mmu'.io[\h0F], 1) = 1]_vars

\* The same of H-blank and OAM-scan alone.
C27_ModeStatButVBlank ==
    [][pc = "body" =>
         \A mode \in {MODE_HBLANK, MODE_OAM_SCAN} :
            (Enters(mode) /\ Bit(mmu'.io[\h41], mode + 3) = 1) =>
               RaisesStat /\ Bit(mmu'.io[\h0F], 1) = 1]_vars

\* V-blank has been entered with STAT = 0x17 (bit 4 alone among the
\* enables, LYC = 144 without its enable) and IF bit 1 is still clear.
C27_VBlankSilent ==
    /\ get_ly(mmu) = 144 /\ get_mode(mmu) = MODE_VBLANK
    /\ BitAnd(mmu.io[\h41], \hF8) = \h10
    /\ Bit(mmu.io[\h0F], 1) = 0 /\ Bit(mmu.io[\h0F], 0) = 1

\* The step advances the scanline.
Advances == get_ly(mmu') # get_ly(mmu)

\* C28: on every scanline advance STAT bit 2 becomes (new LY = LYC), and
\* the STAT interrupt request is raised when they are equal and STAT bit 6
\* is set; so too on the advance into line 144 and on the wrap from 153
\* to 0.
C28_LycCompare ==
    [][(pc = "body" /\ Advances) =>
          /\ get_ly(mmu') = (get_ly(mmu) + 1) % 154
          /\ Bit(mmu'.io[\h41], 2) = (IF get_ly(mmu') = mmu'.io[\h45] THEN 1 ELSE 0)
          /\ (get_ly(mmu') = mmu'.io[\h45] /\ Bit(mmu'.io[\h41], 6) = 1) =>
                 RaisesStat /\ Bit(mmu'.io[\h0F], 1) = 1]_vars

\* The wrap from 153 to 0 has just matched LYC = 0 with bit 6 alone among
\* the enables: the flag is set and the only request of the step is STAT's.
C28_Witness ==
    /\ pc = "test" /\ frames = 2
    /\ get_ly(mmu) = 0 /\ mmu.io[\h45] = 0 /\ ppu.scanline_counter < 24
    /\ BitAnd(mmu.io[\h41], \hFC) = \h44
    /\ last.reqs = <<1>>

\* Line 144 has been entered with LYC = 144 and bit 6 set: the flag is
\* set, and the STAT and the V-blank requests were raised in that order.
C28_Reached144 ==
    /\ get_ly(mmu) = 144 /\ mmu.io[\h45] = 144
    /\ BitAnd(mmu.io[\h41], \hFC) = \h44
    /\ last.reqs = <<1, 0>>

\* C29: with the LCD on throughout, a step draws a line exactly when it
\* changes the mode from OAM-scan to Drawing, and the line it draws is the
\* current one, a visible one; Drawing is entered from OAM-scan only and
\* OAM-scan only by an advance of the scanline, and a visible line is left
\* only from H-blank, which is entered from Drawing only: so each pass over
\* a visible line draws it exactly once, and nothing is drawn on the lines
\* 144..153.
C29_RenderOncePerLine ==
    [][(pc = "body" /\ call.lcd_on /\ LcdOn(mmu')) =>
          /\ last'.rendered = IF Enters(MODE_DRAWING) THEN <<get_ly(mmu')>> ELSE <<>>
          /\ Enters(MODE_DRAWING) =>
                /\ get_mode(mmu) = MODE_OAM_SCAN
                /\ ~Advances /\ get_ly(mmu) < 144
          /\ Enters(MODE_OAM_SCAN) => Advances
          /\ Enters(MODE_HBLANK) => get_mode(mmu) = MODE_DRAWING /\ ~Advances
          /\ (Advances /\ get_ly(mmu) < 144) => get_mode(mmu) = MODE_HBLANK
          /\ get_ly(mmu') >= 144 => last'.rendered = <<>>]_vars

\* Line 143 has just been drawn in the second pass.
C29_Witness ==
    /\ pc = "test" /\ frames = 2 /\ call.lcd_on
    /\ last.rendered = <<143>>
    /\ get_mode(mmu) = MODE_DRAWING

---------------------------------------------------------------------------
(* The PPU with the LCD off.                                               *)

\* 32 NOPs, so that line 0 is in Drawing, then the LCD switched off for
\* good.
RomLcdOff ==
    Image(At(\h0120, <<\hAF,                    \* XOR A
                       \hE0, \h40,              \* LDH (0x40),A   LCD off
                       \h18, \hFE>>))           \* JR -2

\* The same with every STAT enable set and the requests cleared after the
\* LCD is off.
RomLcdOffStat ==
    Image(At(\h0100, <<\h3E, \h78,              \* LD A,0x78
                       \hE0, \h41>>) @@         \* LDH (0x41),A   STAT
          At(\h0120, <<\hAF,                    \* XOR A
                       \hE0, \h40,              \* LDH (0x40),A   LCD off
                       \hE0, \h0F,              \* LDH (0x0F),A   IF
                       \h18, \hFE>>))           \* JR -2

InitLcd ==
    \E rom \in {RomLcdPhase, RomLcdOff, RomLcdOffStat} :
        StartsAs([GBReset(MMULoadRom(MMUNew, rom), PPUNew) EXCEPT !.running = TRUE],
                 NoCall("start"))

SpecLcd == InitLcd /\ [][NextLoop]_vars

\* Cycle counts: none, the costs of a step, a line, a frame.
AnyCycles == StepCosts \cup {0, SCANLINE_CYCLES, target_cycles}

\* C30: PPU::step with LCDC bit 7 clear returns false and leaves LY, STAT,
\* IF and the rest of memory, the counter and the framebuffer as they are,
\* whatever the cycle count; the step of run_frame that calls it so raises
\* no request, draws nothing and keeps the PPU as it was.
C30_LcdOffNoOp ==
    [][(pc = "body" /\ ~LcdOn(mmu')) =>
          /\ \A n \in AnyCycles :
                LET r == PPUStep(mmu', ppu', n)
                IN  /\ r.ret = FALSE
                    /\ r.c.mmu = mmu' /\ r.c.ppu = ppu'
                    /\ r.c.reqs = <<>> /\ r.c.rendered = <<>>
          /\ ppu' = ppu
          /\ get_ly(mmu') = get_ly(mmu)
          /\ BitAnd(mmu'.io[\h41], \h07) = BitAnd(mmu.io[\h41], \h07)
          /\ last'.reqs = <<>> /\ last'.rendered = <<>>
          /\ frame_ready' = frame_ready]_vars

\* The LCD went off in the Drawing part of line 0 and a whole frame has
\* since run with it off: the counter, the line and the mode are where
\* they were.
C30_Witness ==
    /\ frames = 2 /\ pc = "idle" /\ ~LcdOn(mmu) /\ ~call.lcd_on
    /\ ppu.scanline_counter = 132
    /\ get_ly(mmu) = 0 /\ get_mode(mmu) = MODE_DRAWING
    /\ ~frame_ready

---------------------------------------------------------------------------
(* The H-blank VRAM DMA: frames of a colour cartridge that arms a transfer *)
(* of two blocks from 0x0150 to 0x8000 and then loops.                     *)

RomHdma ==
    Image(At(\h0143, <<\h80>>) @@              \* colour cartridge
          At(\h0150, <<\h11, \h22, \h33, \h44>>) @@
          At(\h0100, <<\h3E, \h01,              \* LD A,0x01
                       \hE0, \h51,              \* LDH (0x51),A   source high
                       \h3E, \h50,              \* LD A,0x50
                       \hE0, \h52,              \* LDH (0x52),A   source low
                       \hAF,                    \* XOR A
                       \hE0, \h53,              \* LDH (0x53),A   destination high
                       \hE0, \h54,              \* LDH (0x54),A   destination low
                       \h3E, \h81,              \* LD A,0x81
                       \hE0, \h55,              \* LDH (0x55),A   arm, 2 blocks
                       \h18, \hFE>>))           \* JR -2

InitHdma ==
    StartsAs([GBReset(MMULoadRom(MMUNew, RomHdma), PPUNew) EXCEPT !.running = TRUE],
             NoCall("start"))

SpecHdma == InitHdma /\ [][NextLoop]_vars

\* An H-blank transfer is armed and not complete.
HdmaArmed == mmu.hdma_active /\ mmu.hdma_hblank_mode /\ mmu.hdma_remaining > 0

\* The transfer is complete.
HdmaComplete ==
    /\ mmu.hdma_remaining = 0 /\ ~mmu.hdma_active
    /\ read_byte(mmu, \hFF55) = \hFF

\* C31: while an H-blank transfer is armed and the LCD is on, each step
\* that enters H-blank on a visible line copies one 16-byte block: memory
\* after the step is what hdma_hblank_step makes of it, the remaining
\* length 16 less.
C31_HdmaProgress ==
    [][(pc = "body" /\ HdmaArmed /\ LcdOn(mmu') /\ Enters(MODE_HBLANK)) =>
          /\ mmu'.hdma_remaining = hdma_hblank_step(mmu).hdma_remaining
          /\ mmu'.vram_banks = hdma_hblank_step(mmu).vram_banks
          /\ mmu'.hdma_remaining = 0 => HdmaComplete']_vars

\* Two frames on, the transfer armed in the first steps is as it was armed:
\* 32 bytes remain, 0xFF55 reads 0x81 and VRAM is empty.
C31_HdmaStuck ==
    /\ frames = 2 /\ pc = "idle"
    /\ HdmaArmed /\ mmu.hdma_remaining = 32
    /\ read_byte(mmu, \hFF55) = \h81
    /\ mmu.vram_banks[0] = Empty

---------------------------------------------------------------------------
(* The VRAM DMA unit on its own: stores to its registers and to the VRAM   *)
(* bank register, and blocks of an armed transfer.                         *)

\* A colour cartridge with bytes at the bottom of ROM bank 0.
RomDma ==
    Image(At(\h0000, <<\h11, \h22, \h33, \h44>>) @@
          At(\h0143, <<\hC0>>) @@ At(\h0149, <<\h02>>))

\* A byte in external RAM, in both work-RAM windows, in OAM, in an I/O
\* register, in high RAM and in IE.
DmaBackground ==
    << <<\h0000, \h0A>>, <<\hA000, \hE1>>, <<\hC000, \hC1>>, <<\hD000, \hD1>>,
       <<\hFE00, \h0E>>, <<\hFF47, \h1B>>, <<\hFFF0, \hF1>>, <<\hFFFF, \h1F>> >>

InitDma ==
    StartsAs([GBReset(MMULoadRom(MMUNew, RomDma), PPUNew)
                 EXCEPT !.mmu = write_bytes(@, DmaBackground)],
             NoCall("load_rom"))

\* The number of stores and blocks in a row.
MaxDmaOps == 4

\* Source 0x0150, 0xC0F0 and 0xFFF0 (running past 0xFFFF); destination
\* 0x8000 and 0x9FF0 (running past 0x9FFF), or never written; 1, 2 and 4
\* blocks at once, and 2 and 4 armed; VRAM bank 1.
DmaStores ==
    {<<\hFF51, \h01>>, <<\hFF51, \hC0>>, <<\hFF51, \hFF>>,
     <<\hFF52, \h50>>, <<\hFF52, \hF0>>,
     <<\hFF53, \h00>>, <<\hFF53, \h1F>>,
     <<\hFF54, \h00>>, <<\hFF54, \hF0>>,
     <<\hFF55, \h00>>, <<\hFF55, \h01>>, <<\hFF55, \h03>>,
     <<\hFF55, \h81>>, <<\hFF55, \h83>>,
     <<\hFF4F, \h01>>}

\* A CPU store to a register of the unit.
DmaStore ==
    /\ steps < MaxDmaOps
    /\ \E st \in DmaStores :
          /\ mmu' = write_byte(mmu, st[1], st[2])
          /\ call' = [NoCall("write_byte") EXCEPT !.arg = [addr |-> st[1], val |-> st[2]]]
    /\ steps' = steps + 1
    /\ UNCHANGED <<running, registers, timer, input, ppu, apu, cycles, halted, ime,
                   ime_scheduled, last_interrupt, pc, frame_cycles, frame_ready,
                   last, frames>>

\* MMU::hdma_hblank_step()
HdmaBlock ==
    /\ steps < MaxDmaOps
    /\ mmu' = hdma_hblank_step(mmu)
    /\ call' = NoCall("hdma_hblank_step")
    /\ steps' = steps + 1
    /\ UNCHANGED <<running, registers, timer, input, ppu, apu, cycles, halted, ime,
                   ime_scheduled, last_interrupt, pc, frame_cycles, frame_ready,
                   last, frames>>

NextDma == DmaStore \/ HdmaBlock

SpecDma == InitDma /\ [][NextDma]_vars

\* The step is a copy: a store to 0xFF55 or a block of an armed transfer.
DmaCopies ==
    \/ call'.op = "hdma_hblank_step"
    \/ call'.op = "write_byte" /\ call'.arg.addr = \hFF55

\* The memory unit with the video RAM, the unit's own registers and 0xFF55
\* taken from another.
WithDmaOf(m, n) ==
    [m EXCEPT !.vram = n.vram, !.vram_banks = n.vram_banks,
              !.hdma_src = n.hdma_src, !.hdma_dst = n.hdma_dst,
              !.hdma_remaining = n.hdma_remaining,
              !.hdma_active = n.hdma_active,
              !.hdma_hblank_mode = n.hdma_hblank_mode,
              !.io[\h55] = n.io[\h55]]

\* Every byte of video RAM is inside its 8 KiB.
VramInside(m) ==
    /\ DOMAIN m.vram \subseteq 0..\h1FFF
    /\ \A b \in DOMAIN m.vram_banks : DOMAIN m.vram_banks[b] \subseteq 0..\h1FFF

\* C32: a VRAM DMA copy, at once or by blocks, from any source, to any
\* destination (never written, or running past 0x9FFF), changes video RAM,
\* the unit's registers and 0xFF55 only, stores nothing outside the 8 KiB
\* of video RAM, and leaves the remaining length at 0 or above.
C32_DmaOnlyVram ==
    [][DmaCopies =>
          /\ WithDmaOf(mmu', mmu) = mmu
          /\ VramInside(mmu')
          /\ mmu'.hdma_remaining \in 0..2048]_vars

\* Two blocks copied at once from ROM 0x0000 to 0x9FF0: the first 16 bytes
\* are in video RAM and the destination stands at 0xA010.
C32_Witness ==
    /\ call.op = "write_byte" /\ call.arg = [addr |-> \hFF55, val |-> \h01]
    /\ mmu.hdma_dst = \hA010 /\ mmu.hdma_src = \h0020
    /\ Get(mmu.vram_banks[0], \h1FF0) = \h11 /\ Get(mmu.vram_banks[0], \h1FF3) = \h44
    /\ read_byte(mmu, \hFF55) = \hFF

---------------------------------------------------------------------------
(* The joypad interrupt: presses and releases, stores of the select lines, *)
(* reads of 0xFF00 and stores that acknowledge IF.                         *)

\* A CPU read of 0xFF00 (MMU::read_byte takes &self); the value read is kept.
JoypRead ==
    ButtonCall("read_byte", read_byte(mmu, \hFF00), input, mmu)

NextJoypIrq ==
    \/ NextJoyp
    \/ JoypRead
    \/ ControlWrite(\hFF0F, \h00)

SpecJoypIrq == InitJoyp /\ [][NextJoypIrq]_vars

\* IF bit 4, the joypad request.
JoypRequested == Bit(mmu.io[\h0F], 4) = 1

\* Button k is down in the latch the read of 0xFF00 composes from.
Down(k) == Bit(mmu.joypad_buttons, k) = 0

GroupSelected(k) == IF k < 4 THEN DpadSelected ELSE ActionSelected

\* A button of a selected group is down.
SelectedHeld == \E k \in 0..7 : GroupSelected(k) /\ Down(k)

\* A read of 0xFF00 with a button of a selected group down leaves IF bit 4
\* set.
C33_ReadRaises ==
    [][(call'.op = "read_byte" /\ SelectedHeld) => JoypRequested']_vars

\* A press of a button whose group is not selected leaves IF bit 4 as it was.
C33_UnselectedPressSilent ==
    [][(call'.op = "press_button" /\ ~GroupSelected(call'.arg)) =>
          (JoypRequested' <=> JoypRequested)]_vars

\* C33: IF bit 4 is raised whenever a read of the joypad register composes
\* a low nibble with a button pressed, and is not raised by a press of a
\* button whose group is not selected.
C33_JoypadIrq ==
    [][/\ (call'.op = "read_byte" /\ SelectedHeld) => JoypRequested'
       /\ (call'.op = "press_button" /\ ~GroupSelected(call'.arg)) =>
             (JoypRequested' <=> JoypRequested)]_vars

\* A is down with its group selected, the request acknowledged, and the
\* register read: no request.
C33_ReadSilent ==
    /\ call.op = "read_byte" /\ Down(4) /\ ActionSelected /\ ~JoypRequested

\* Only the D-pad is selected and a press of A has raised the request.
C33_UnselectedPressRaises ==
    /\ call.op = "press_button" /\ call.arg = 4
    /\ DpadSelected /\ ~ActionSelected /\ JoypRequested

---------------------------------------------------------------------------
(* DAA after ADD and SUB of packed-BCD bytes, and on its own.              *)

\* The bytes whose two nibbles are decimal digits.
BcdBytes == {x \in Byte : x % 16 <= 9 /\ x \div 16 <= 9}

\* The number a packed-BCD byte stands for, and the byte of a number 0..99.
BcdValue(x) == (x \div 16) * 10 + (x % 16)
BcdByte(n) == (n \div 10) * 16 + (n % 10)

\* Any accumulator with flags all clear or all set, and a BCD operand.
InitBcd ==
    \E a \in Byte, value \in BcdBytes, f \in AluFlags :
        StartsAs([GBNew EXCEPT !.registers.a = a, !.registers.f = f],
                 [NoCall("operand") EXCEPT !.arg = [a |-> a, f |-> f, value |-> value]])

DaaNames == [operand |-> "daa", add8 |-> "add8 daa", sub8 |-> "sub8 daa"]

\* DAA (opcode 0x27) on the registers as they stand.
Daa ==
    /\ call.op \in DOMAIN DaaNames
    /\ registers' = daa(registers)
    /\ call' = [call EXCEPT !.op = DaaNames[call.op]]
    /\ OthersUnchanged

NextBcd == AluOp(0) \/ AluOp(2) \/ Daa

SpecBcd == InitBcd /\ [][NextBcd]_vars

\* The operands at hand are both packed BCD.
BcdOperands == call.arg.a \in BcdBytes /\ call.arg.value \in BcdBytes

BcdSum == BcdValue(call.arg.a) + BcdValue(call.arg.value)
BcdDifference == BcdValue(call.arg.a) - BcdValue(call.arg.value)

\* C34: for packed-BCD x and y, ADD A,y then DAA leaves A = BCD((x + y) mod
\* 100) with carry exactly when x + y >= 100, and SUB y then DAA leaves
\* A = BCD((x - y) mod 100) with carry exactly when x < y; every DAA clears
\* H, sets Z exactly when A is 0 and leaves N as it was.
C34_DaaBcd ==
    [][call'.op \in {"daa", "add8 daa", "sub8 daa"} =>
          /\ ~flag_h(registers')
          /\ flag_z(registers') <=> registers'.a = 0
          /\ flag_n(registers') <=> flag_n(registers)
          /\ (call'.op = "add8 daa" /\ BcdOperands) =>
                /\ registers'.a = BcdByte(BcdSum % 100)
                /\ flag_c(registers') <=> BcdSum >= 100
          /\ (call'.op = "sub8 daa" /\ BcdOperands) =>
                /\ registers'.a = BcdByte(BcdDifference % 100)
                /\ flag_c(registers') <=> BcdDifference < 0]_vars

\* 59 + 49 = 108: DAA after the ADD leaves 0x08 with carry.
C34_Witness ==
    /\ call.op = "add8 daa" /\ call.arg.a = \h59 /\ call.arg.value = \h49
    /\ registers.a = \h08 /\ flag_c(registers) /\ ~flag_h(registers)

\* 15 - 27 = -12: DAA after the SUB leaves 0x88 with carry.
C34_Borrow ==
    /\ call.op = "sub8 daa" /\ call.arg.a = \h15 /\ call.arg.value = \h27
    /\ registers.a = \h88 /\ flag_c(registers) /\ flag_n(registers)

---------------------------------------------------------------------------
(* The cost of a step: every opcode with either outcome of its condition,  *)
(* followed for a few steps, and whole frames of the cartridges that halt, *)
(* run undefined opcodes, dispatch and meet the storm guard.               *)

\* Z and C both set (XOR A; SCF) and both clear (LD A,1; OR A).
FlagPrefixes == {<<\hAF, \h37>>, <<\h3E, \h01, \hB7>>}

\* One operand byte per cost class of the CB page (rotate, BIT, RES and SET,
\* on a register and on (HL)), which is also a displacement or address byte.
Operands == {\h00, \h06, \h40, \h46, \h80, \h86, \hC0, \hC6}

OpcodeRom(prefix, opcode, n) == Image(At(\h0100, prefix \o <<opcode, n>>))

FrameRoms == {RomHalt, RomUndefined, RomStorm, RomVBlankIrq}

InitCost ==
    \E rom \in FrameRoms \cup {OpcodeRom(prefix, opcode, n) :
                                 prefix \in FlagPrefixes, opcode \in Byte, n \in Operands} :
        StartsAs([GBReset(MMULoadRom(MMUNew, rom), PPUNew) EXCEPT !.running = TRUE],
                 NoCall("start"))

\* The cartridge is one of those followed for whole frames.
WholeFrames == mmu.rom \in {rom.bytes : rom \in FrameRoms}

CostStep == (WholeFrames \/ steps < MaxSteps) /\ Step

NextCost == RunFrame \/ LoopTest \/ CostStep \/ Return

SpecCost == InitCost /\ [][NextCost]_vars

\* The step of the storm guard: the interrupt path with SP below 0x8100.
Guarded(l) == l.path = "interrupt" /\ l.sp < \h8100

\* C35: a step costs a multiple of 4 from 4 to 24 (4 for an undefined
\* opcode and for a halted step, 20 for a dispatch), but for the storm
\* guard, which costs 0 and is never taken twice in a row; so the cycles fed
\* to the timer and the PPU over a run_frame call are 70224..70244.
C35_StepCosts ==
    [][/\ BodyEnds =>
            /\ last'.cycles \in StepCosts \/ (last'.cycles = 0 /\ Guarded(last'))
            /\ Guarded(last') => last'.cycles = 0 /\ ~Guarded(last)
            /\ last'.path = "halted" => last'.cycles = 4
            /\ (last'.path = "interrupt" /\ ~Guarded(last')) => last'.cycles = 20
            /\ (last'.path = "opcode"
                  /\ read_byte(mmu, registers.pc) \in UndefinedOpcodes) =>
                  last'.cycles = 4
            /\ frame_cycles' = frame_cycles + last'.cycles
       /\ (pc = "test" /\ pc' = "idle") =>
            frame_cycles \in target_cycles..(target_cycles + 20)]_vars

\* Late in a frame of the storm cartridge a guarded step has cost 0.
C35_Witness ==
    /\ pc = "test" /\ Guarded(last) /\ last.cycles = 0
    /\ frame_cycles > 70000

\* A call has returned having fed more than 70224 cycles.
C35_Overshoot == Done /\ frame_cycles > target_cycles

\* A taken CALL has cost 24 cycles.
C35_Call24 ==
    /\ last.path = "opcode" /\ last.cycles = 24 /\ last.pc = \h0102
    /\ read_byte(mmu, \h0102) = \hCC

---------------------------------------------------------------------------
(* Work RAM of a monochrome cartridge: stores into both windows and their  *)
(* echoes.                                                                 *)

InitWram ==
    StartsAs(GBReset(MMULoadRom(MMUNew, RomMonoRam), PPUNew), NoCall("load_rom"))

\* The ends and an inner address of 0xC000-0xCFFF and of 0xD000-0xDFFF.
WramAddrs == {\hC000, \hC123, \hCFFF, \hD000, \hD123, \hDFFF}

\* The echoes of 0xC123 and 0xD123.
EchoAddrs == {\hE123, \hF123}

NextWram ==
    \E addr \in WramAddrs \cup EchoAddrs, val \in {\h00, \h5A, \hA5} :
        ControlWrite(addr, val)

SpecWram == InitWram /\ [][NextWram]_vars

\* The store went to address a of work RAM (an echo counts as the address it
\* mirrors).
StoredAt(a) == call'.op = "write_byte" /\ Unecho(call'.arg.addr) = a

\* C36: on a monochrome cartridge the windows 0xC000-0xCFFF and
\* 0xD000-0xDFFF have storage of their own: a store into one changes the
\* byte at that address (and at its echo) and no other byte of work RAM, so
\* never a byte of the other window.
C36_WramWindows ==
    [][\A a \in WramAddrs :
          StoredAt(a) =>
             /\ read_byte(mmu', a) = call'.arg.val
             /\ a + \h2000 <= \hFDFF => read_byte(mmu', a + \h2000) = call'.arg.val
             /\ \A w \in WramAddrs \ {a} : read_byte(mmu', w) = read_byte(mmu, w)]_vars

\* The store itself lands: the byte and its echo read back the value.
C36_StoreLands ==
    [][\A a \in WramAddrs :
          StoredAt(a) =>
             /\ read_byte(mmu', a) = call'.arg.val
             /\ a + \h2000 <= \hFDFF => read_byte(mmu', a + \h2000) = call'.arg.val]_vars

\* A store of 0x5A to 0xC123 reads back at 0xD123.
C36_Aliased ==
    /\ call.op = "write_byte" /\ call.arg = [addr |-> \hC123, val |-> \h5A]
    /\ read_byte(mmu, \hD123) = \h5A

---------------------------------------------------------------------------
(* load_rom after load_rom: cartridges loaded one after another, with      *)
(* stores in between.                                                      *)

\* An image that ends before the header: JP 0x0000 and nothing else.
ShortRom == [len |-> 3, bytes |-> (0 :> \hC3)]

\* Colour and monochrome with 32 KiB of external RAM, a RAM size code
\* outside the table, and the short image.
LoadRoms == {RomColorRam, RomMonoRam, RamSizeRom(5), ShortRom}

\* RAM enable and a byte in external RAM, in video RAM and in the banked
\* window of work RAM.
LoadStores ==
    {<<\h0000, \h0A>>, <<\hA000, \h5A>>, <<\h8000, \h5A>>, <<\hD000, \h5A>>}

NextLoad ==
    \/ \E rom \in LoadRoms : LoadRom(rom)
    \/ \E w \in LoadStores : ControlWrite(w[1], w[2])

SpecLoad == Init /\ [][NextLoad]_vars

\* The engine after load_rom(rom) on a new engine.
FreshLoad(rom) == GBReset(MMULoadRom(MMUNew, rom), PPUNew)

\* The engine's fields are those of the record r.
EngineIs(r) ==
    /\ running = r.running /\ mmu = r.mmu /\ registers = r.registers
    /\ timer = r.timer /\ input = r.input /\ ppu = r.ppu /\ apu = r.apu
    /\ cycles = r.cycles /\ halted = r.halted /\ ime = r.ime
    /\ ime_scheduled = r.ime_scheduled /\ last_interrupt = r.last_interrupt

\* C37: the engine after load_rom(bytes) depends on bytes alone (cartridge
\* type, colour flag, external RAM size, registers, all RAM, bank and
\* interrupt state), images too short for the header included: it is what
\* load_rom(bytes) leaves of a new engine, whatever came before.
C37_LoadRomDeterministic ==
    [][call'.op = "load_rom" =>
          \A rom \in LoadRoms : mmu'.rom = rom.bytes => EngineIs(FreshLoad(rom))']_vars

\* The short image loaded after the colour cartridge: the engine still has
\* the colour flag and the cartridge type of the cartridge before.
C37_ShortKeepsHeader ==
    /\ call.op = "load_rom" /\ mmu.rom = ShortRom.bytes
    /\ mmu.is_gbc /\ mmu.mbc_type = \h03
    /\ ~FreshLoad(ShortRom).mmu.is_gbc

\* The monochrome cartridge loaded after a store to the colour cartridge's
\* video RAM bank: the byte is still there.
C37_BanksKept ==
    /\ call.op = "load_rom" /\ mmu.rom = RomMonoRam.bytes
    /\ Get(mmu.vram_banks[0], 0) = \h5A

\* What load_rom does settle from the image alone: the ROM, the registers,
\* the bank selectors, the interrupt state and the I/O block.
C37_SettledByImage ==
    [][call'.op = "load_rom" =>
          \A rom \in LoadRoms : mmu'.rom = rom.bytes =>
             /\ registers' = FreshLoad(rom).registers
             /\ mmu'.io = FreshLoad(rom).mmu.io
             /\ mmu'.rom_bank = 1 /\ mmu'.ram_bank = 0 /\ mmu'.wram_bank = 1
             /\ mmu'.vram_bank = 0 /\ ~mmu'.ram_enabled
             /\ mmu'.ie = 0 /\ ~ime' /\ ~halted' /\ ~running']_vars

---------------------------------------------------------------------------
(* The STAT request: when the PPU raises it.                               *)

\* The step enters a mode whose enable bit in STAT is set: bit 3 for
\* H-blank, bit 4 for V-blank, bit 5 for OAM-scan.
EntersEnabledMode ==
    \E mode \in {MODE_HBLANK, MODE_VBLANK, MODE_OAM_SCAN} :
        Enters(mode) /\ Bit(mmu'.io[\h41], mode + 3) = 1

\* The step advances LY to LYC with STAT bit 6 set.
AdvancesToLyc ==
    Advances /\ get_ly(mmu') = mmu'.io[\h45] /\ Bit(mmu'.io[\h41], 6) = 1

\* C38: the PPU raises the STAT request (IF bit 1) only in a step that
\* changes the mode into one whose enable bit is set, or that advances LY to
\* LYC with bit 6 set; a step that leaves the mode as it was and does not
\* advance LY never raises it.
C38_StatOnlyOnEntry ==
    [][(pc = "body" /\ RaisesStat) => (EntersEnabledMode \/ AdvancesToLyc)]_vars

\* A step that keeps the mode and the line raises no STAT request.
C38_SilentWithoutChange ==
    [][(pc = "body" /\ get_mode(mmu') = get_mode(mmu) /\ ~Advances) =>
          ~RaisesStat]_vars

\* A step that enters Drawing on the line it was on raises no STAT request.
C38_DrawingSilent ==
    [][(pc = "body" /\ Enters(MODE_DRAWING) /\ ~Advances) => ~RaisesStat]_vars

\* With the OAM-scan enable clear (and bit 6 clear) the claim holds.
C38_HoldsWithoutOamAndLyc ==
    [][(pc = "body" /\ RaisesStat /\ Bit(mmu'.io[\h41], 5) = 0
          /\ Bit(mmu'.io[\h41], 6) = 0) =>
          (EntersEnabledMode \/ AdvancesToLyc)]_vars

---------------------------------------------------------------------------
(* The halt flag and the scheduled IME.                                    *)

\* C39: the halt flag and the scheduled-IME flag are never both set: the
\* step that executes HALT has committed the schedule before it fetches,
\* and a halted CPU executes no EI.
C39_HaltedNotScheduled == ~(halted /\ ime_scheduled)

\* HALT right after EI: the step began with the schedule set and ends
\* halted, the schedule committed to IME.
C39_Witness ==
    /\ last.path = "opcode" /\ last.ime_scheduled /\ ~last.ime /\ last.pc = \h0109
    /\ halted /\ ime /\ ~ime_scheduled

---------------------------------------------------------------------------
(* Bank selectors and the indexes of the backing stores.                   *)

\* The lengths MMU::new gives the backing stores: the vectors and arrays,
\* the two video-RAM banks and the eight work-RAM banks with the length of
\* each, and the two palette memories.
storage_len ==
    [vram |-> \h2000, wram |-> \h2000, oam |-> \hA0, io |-> \h80, hram |-> \h7F,
     vram_banks |-> 2, vram_bank |-> \h2000,
     wram_banks |-> 8, wram_bank |-> \h1000,
     palette |-> 64]

\* The indexing expressions store[index] a read of addr0 evaluates, each as
\* <<length of the store, index>>.  Accesses through .get() index nothing.
read_indexes(m, addr0) ==
    LET addr == Unecho(addr0)
        offset == addr - \hFF00
    IN  IF addr <= \h7FFF THEN {}
        ELSE IF addr <= \h9FFF
          THEN IF m.is_gbc /\ m.vram_bank < 2
               THEN {<<storage_len.vram_banks, m.vram_bank>>}
               ELSE IF addr - \h8000 < storage_len.vram
                    THEN {<<storage_len.vram, addr - \h8000>>} ELSE {}
        ELSE IF addr <= \hCFFF THEN {}
        ELSE IF addr <= \hDFFF
          THEN IF m.is_gbc /\ m.wram_bank < 8
               THEN {<<storage_len.wram_banks, m.wram_bank>>}
               ELSE IF addr - \hD000 < storage_len.wram
                    THEN {<<storage_len.wram, addr - \hD000>>} ELSE {}
        ELSE IF addr <= \hFE9F
          THEN IF addr - \hFE00 < storage_len.oam
               THEN {<<storage_len.oam, addr - \hFE00>>} ELSE {}
        ELSE IF addr <= \hFEFF THEN {}
        ELSE IF addr <= \hFF7F
          THEN IF offset = \h00 THEN {<<storage_len.io, \h00>>}
               ELSE IF m.is_gbc /\ offset = \h69
                 THEN {<<storage_len.palette, BitAnd(m.bgpi, \h3F)>>}
               ELSE IF m.is_gbc /\ offset = \h6B
                 THEN {<<storage_len.palette, BitAnd(m.obpi, \h3F)>>}
               ELSE IF m.is_gbc /\ offset \in {\h4F, \h70, \h68, \h6A,
                                               \h51, \h52, \h53, \h54, \h55}
                 THEN {}
               ELSE {<<storage_len.io, offset>>}
        ELSE IF addr <= \hFFFE
          THEN IF addr - \hFF80 < storage_len.hram
               THEN {<<storage_len.hram, addr - \hFF80>>} ELSE {}
        ELSE {}

\* The indexing expressions a store of val to addr0 evaluates, those of the
\* OAM DMA and of the general-purpose VRAM DMA it starts included.  The
\* copies change no selector, so every read of a copy indexes as in m.
write_indexes(m, addr0, val) ==
    LET addr == Unecho(addr0)
        offset == addr - \hFF00
        hdma_dst_indexes(dst) ==
            LET dst_off == IF dst >= \h8000 THEN dst - \h8000 ELSE 0
            IN  IF dst_off >= \h2000 THEN {}
                ELSE IF m.is_gbc /\ m.vram_bank < 2
                     THEN {<<storage_len.vram_banks, m.vram_bank>>,
                           <<storage_len.vram_bank, dst_off>>}
                     ELSE IF dst_off < storage_len.vram
                          THEN {<<storage_len.vram, dst_off>>} ELSE {}
    IN  IF addr <= \h7FFF THEN {}
        ELSE IF addr <= \h9FFF
          THEN IF m.is_gbc /\ m.vram_bank < 2 /\ addr - \h8000 < \h2000
               THEN {<<storage_len.vram_banks, m.vram_bank>>,
                     <<storage_len.vram_bank, addr - \h8000>>}
               ELSE IF addr - \h8000 < storage_len.vram
                    THEN {<<storage_len.vram, addr - \h8000>>} ELSE {}
        ELSE IF addr <= \hBFFF
          THEN LET eram_offset == m.ram_bank * \h2000 + (addr - \hA000)
               IN  IF m.ram_enabled /\ eram_offset < m.eram_len
                   THEN {<<m.eram_len, eram_offset>>} ELSE {}
        ELSE IF addr <= \hCFFF
          THEN IF addr - \hC000 < storage_len.wram
               THEN {<<storage_len.wram, addr - \hC000>>} ELSE {}
        ELSE IF addr <= \hDFFF
          THEN IF m.is_gbc /\ m.wram_bank < 8 /\ addr - \hD000 < \h1000
               THEN {<<storage_len.wram_banks, m.wram_bank>>,
                     <<storage_len.wram_bank, addr - \hD000>>}
               ELSE IF addr - \hD000 < storage_len.wram
                    THEN {<<storage_len.wram, addr - \hD000>>} ELSE {}
        ELSE IF addr <= \hFE9F
          THEN IF addr - \hFE00 < storage_len.oam
               THEN {<<storage_len.oam, addr - \hFE00>>} ELSE {}
        ELSE IF addr <= \hFEFF THEN {}
        ELSE IF addr <= \hFF7F
          THEN IF offset = \h44 THEN {}
               ELSE IF offset = \h46
                 THEN UNION {{<<storage_len.oam, i>>}
                               \cup read_indexes(m, U16(val * 256 + i)) :
                             i \in 0..(\hA0 - 1)}
                      \cup {<<storage_len.io, offset>>}
               ELSE IF offset \in {\h00, \h04, \h41} THEN {<<storage_len.io, offset>>}
               ELSE IF m.is_gbc /\ offset = \h69
                 THEN {<<storage_len.palette, BitAnd(m.bgpi, \h3F)>>}
               ELSE IF m.is_gbc /\ offset = \h6B
                 THEN {<<storage_len.palette, BitAnd(m.obpi, \h3F)>>}
               ELSE IF m.is_gbc /\ offset = \h55
                 THEN (IF BitAnd(val, \h80) = 0
                       THEN UNION {read_indexes(m, U16(m.hdma_src + i))
                                     \cup hdma_dst_indexes(U16(m.hdma_dst + i)) :
                                   i \in 0..((BitAnd(val, \h7F) + 1) * 16 - 1)}
                       ELSE {})
                      \cup {<<storage_len.io, \h55>>}
               ELSE IF m.is_gbc /\ offset \in {\h4F, \h70, \h68, \h6A,
                                               \h51, \h52, \h53, \h54}
                 THEN {}
               ELSE {<<storage_len.io, offset>>}
        ELSE IF addr <= \hFFFE
          THEN IF addr - \hFF80 < storage_len.hram
               THEN {<<storage_len.hram, addr - \hFF80>>} ELSE {}
        ELSE {}

\* A colour cartridge with 32 KiB of external RAM and a monochrome one
\* with 2 KiB.
BankRoms == {RomColorRam, RamSizeRom(1)}

InitBank ==
    \E rom \in BankRoms :
       StartsAs(GBReset(MMULoadRom(MMUNew, rom), PPUNew), NoCall("load_rom"))

\* Stores to the selectors (of zero and of a value beyond the table), to
\* RAM enable and the banking mode, to the VRAM DMA source and destination
\* and the palette index, and of a byte to the last address of the banked
\* window of work RAM.
BankStores ==
    {<<\hFF4F, \h00>>, <<\hFF4F, \hFF>>, <<\hFF70, \h00>>, <<\hFF70, \h0F>>,
     <<\h4000, \h00>>, <<\h4000, \hFF>>, <<\h6000, \h01>>, <<\h0000, \h0A>>,
     <<\hFF51, \hFF>>, <<\hFF53, \h1F>>, <<\hFF68, \hBF>>,
     <<\hDFFF, \h5A>>}

NextBank ==
    \/ \E w \in BankStores : ControlWrite(w[1], w[2])
    \/ \E rom \in BankRoms : LoadRom(rom)

SpecBank == InitBank /\ [][NextBank]_vars

\* The first and last address of every region of the map, the echo of the
\* banked windows, and the registers that index or copy.
ProbeAddrs ==
    {\h0000, \h3FFF, \h4000, \h7FFF, \h8000, \h9FFF, \hA000, \hBFFF,
     \hC000, \hCFFF, \hD000, \hDFFF, \hE000, \hEFFF, \hF000, \hFDFF,
     \hFE00, \hFE9F, \hFEA0, \hFEFF, \hFF00, \hFF04, \hFF41, \hFF44, \hFF46,
     \hFF4F, \hFF51, \hFF55, \hFF68, \hFF69, \hFF6A, \hFF6B, \hFF70, \hFF7F,
     \hFF80, \hFFFE, \hFFFF}

\* Source pages of the OAM DMA (ROM, VRAM, banked WRAM, OAM, I/O and high
\* RAM) and a length of the VRAM DMA (272 bytes).
ProbeVals == {\h10, \h9F, \hD0, \hFE, \hFF}

\* Values stored to the selectors: in the table, zero, and beyond the table.
SelectVals == {\h00, \h01, \h02, \h07, \h08, \h0F, \h80, \hFE, \hFF}

SelectorsInside(m) ==
    /\ m.vram_bank \in 0..1
    /\ m.wram_bank \in 1..7
    /\ m.ram_bank \in 0..3

IndexesInside(m) ==
    \A addr \in ProbeAddrs :
       /\ \A p \in read_indexes(m, addr) : p[2] < p[1]
       /\ \A val \in ProbeVals :
             \A p \in write_indexes(m, addr, val) : p[2] < p[1]

StoresInside(m) ==
    /\ DOMAIN m.vram \subseteq 0..(storage_len.vram - 1)
    /\ DOMAIN m.wram \subseteq 0..(storage_len.wram - 1)
    /\ DOMAIN m.eram \subseteq 0..(m.eram_len - 1)
    /\ \A b \in DOMAIN m.vram_banks :
          DOMAIN m.vram_banks[b] \subseteq 0..(storage_len.vram_bank - 1)
    /\ \A b \in DOMAIN m.wram_banks :
          DOMAIN m.wram_banks[b] \subseteq 0..(storage_len.wram_bank - 1)

\* The work-RAM banks the bytes select.
WramSelections == {wram_bank_select(val) : val \in Byte}

BanksOf(m) == <<m.vram_bank, m.wram_bank, m.ram_bank, m.rom_bank>>

\* C40: in every reachable state the video-RAM bank is 0 or 1, the work-RAM
\* bank is 1..7 (a store of 0 to 0xFF70 selects 1) and the external-RAM bank
\* is 0..3; no read or store indexes a backing store at or beyond its
\* length; and on a monochrome cartridge a store to 0xFF4F or
\* 0xFF70 changes no bank.
C40_BanksInside ==
    /\ SelectorsInside(mmu)
    /\ IndexesInside(mmu)
    /\ StoresInside(mmu)
    /\ WramSelections \subseteq 1..7
    /\ \A val \in SelectVals :
          /\ SelectorsInside(write_byte(mmu, \hFF4F, val))
          /\ SelectorsInside(write_byte(mmu, \hFF70, val))
          /\ SelectorsInside(write_byte(mmu, \h4000, val))
          /\ ~mmu.is_gbc =>
               /\ BanksOf(write_byte(mmu, \hFF4F, val)) = BanksOf(mmu)
               /\ BanksOf(write_byte(mmu, \hFF70, val)) = BanksOf(mmu)
    /\ mmu.is_gbc => write_byte(mmu, \hFF70, \h00).wram_bank = 1

\* The store of 0 to 0xFF70 on the colour cartridge with video-RAM bank 1
\* and external-RAM bank 3 selected and a byte in the banked window.
C40_Witness ==
    /\ call.op = "write_byte" /\ call.arg = [addr |-> \hFF70, val |-> \h00]
    /\ mmu.is_gbc /\ mmu.wram_bank = 1 /\ mmu.vram_bank = 1 /\ mmu.ram_bank = 3
    /\ Get(mmu.wram_banks[7], \h0FFF) = \h5A

\* The same stores on a monochrome cartridge leave the selectors of the
\* construction.
C40_MonoKeepsBanks ==
    /\ call.op = "write_byte" /\ call.arg = [addr |-> \hFF70, val |-> \h0F]
    /\ ~mmu.is_gbc /\ mmu.wram_bank = 1 /\ mmu.vram_bank = 0
    /\ mmu.io[\h70] = \h0F /\ mmu.io[\h4F] = \hFF

====
